---- MODULE Spec2Model ----
(***************************************************************************)
(* Configuration graph extraction (Nodes.py) and snapshot diff             *)
(* (Compare.py) of MHC_Config_Visualization.                               *)
(*                                                                         *)
(* Python strings are sequences of one-character strings, so that slicing, *)
(* split, strip, replace, substring tests and the reference regex are      *)
(* computed character by character as the code computes them.              *)
(***************************************************************************)
EXTENDS Integers, Sequences, FiniteSets, TLC

\* Python's None
None == "<None>"

(***************************************************************************)
(* String literals of the source                                           *)
(***************************************************************************)
s_MessageConfig == <<"M","e","s","s","a","g","e","C","o","n","f","i","g">>
s_ClientTopic == <<"C","l","i","e","n","t","T","o","p","i","c">>
s_StandaloneFormula == <<"S","t","a","n","d","a","l","o","n","e","F","o","r","m","u","l","a">>
s_ClientPageLayout == <<"C","l","i","e","n","t","P","a","g","e","L","a","y","o","u","t">>
s_MessageCategory == <<"M","e","s","s","a","g","e","C","a","t","e","g","o","r","y">>
s_CustomFieldDef == <<"C","u","s","t","o","m","F","i","e","l","d","D","e","f">>
s_Incentive == <<"I","n","c","e","n","t","i","v","e">>
s_Rule == <<"R","u","l","e">>
s_ClientRaffle == <<"C","l","i","e","n","t","R","a","f","f","l","e">>
s_ClientReward == <<"C","l","i","e","n","t","R","e","w","a","r","d">>
s_ClientProgram == <<"C","l","i","e","n","t","P","r","o","g","r","a","m">>
s_ClientTaskHandlerDefinition == <<"C","l","i","e","n","t","T","a","s","k","H","a","n","d","l","e","r","D","e","f","i","n","i","t","i","o","n">>
s_RuleSet == <<"R","u","l","e","S","e","t">>
s_None == <<"N","o","n","e">>
s_qry == <<"q","r","y">>
s_dummy_formula == <<"_","d","u","m","m","y","_","_","f","o","r","m","u","l","a">>
s_reference_comparison_key == <<"_","_","r","e","f","e","r","e","n","c","e","_","c","o","m","p","a","r","i","s","o","n","_","k","e","y">>
s_children == <<"_","c","h","i","l","d","r","e","n">>
s_message == <<"m","e","s","s","a","g","e">>
s_body == <<"b","o","d","y">>
s_subject == <<"s","u","b","j","e","c","t">>
s_notificationText == <<"n","o","t","i","f","i","c","a","t","i","o","n","T","e","x","t">>
s_name == <<"n","a","m","e">>
s_info == <<"i","n","f","o">>
s_defaultValue == <<"d","e","f","a","u","l","t","V","a","l","u","e">>
s_fieldType == <<"f","i","e","l","d","T","y","p","e">>
s_fieldDataType == <<"f","i","e","l","d","D","a","t","a","T","y","p","e">>
s_pageLayoutElements == <<"p","a","g","e","L","a","y","o","u","t","E","l","e","m","e","n","t","s">>
s_HTMLContent == <<"H","T","M","L","C","o","n","t","e","n","t">>
s_Calculated_Using_Formula == <<"C","a","l","c","u","l","a","t","e","d"," ","U","s","i","n","g"," ","F","o","r","m","u","l","a">>
s_ClientProgramColon == s_ClientProgram \o <<":">>
LT2 == <<"<","<">>
GT2 == <<">",">">>

(***************************************************************************)
(* Python str operations                                                   *)
(***************************************************************************)
Max(a, b) == IF a >= b THEN a ELSE b
Min(a, b) == IF a <= b THEN a ELSE b

\* s[n:]
SliceFrom(s, n) == SubSeq(s, Min(n, Len(s)) + 1, Len(s))
\* s[:-n], n > 0
SliceDropLast(s, n) == SubSeq(s, 1, Max(Len(s) - n, 0))
\* s[:n]
SliceTo(s, n) == SubSeq(s, 1, Min(n, Len(s)))

\* s.startswith(p)
startswith(s, p) == Len(p) <= Len(s) /\ SubSeq(s, 1, Len(p)) = p
\* s.endswith(p)
endswith(s, p) == Len(p) <= Len(s) /\ SubSeq(s, Len(s) - Len(p) + 1, Len(s)) = p
\* sub in s
StrIn(sub, s) == \E i \in 1..(Len(s) - Len(sub) + 1) : SubSeq(s, i, i + Len(sub) - 1) = sub

IsSpace(c) == c \in {" ", "\n", "\t"}

RECURSIVE lstrip(_)
lstrip(s) == IF s # <<>> /\ IsSpace(Head(s)) THEN lstrip(Tail(s)) ELSE s
RECURSIVE rstrip(_)
rstrip(s) == IF s # <<>> /\ IsSpace(s[Len(s)]) THEN rstrip(SubSeq(s, 1, Len(s) - 1)) ELSE s
\* s.strip()
strip(s) == rstrip(lstrip(s))

\* index of the first occurrence of character c in s, 0 when there is none
FindChar(s, c) ==
    IF \E i \in 1..Len(s) : s[i] = c
    THEN CHOOSE i \in 1..Len(s) : s[i] = c /\ \A k \in 1..(i - 1) : s[k] # c
    ELSE 0

\* s.split(c) for a one-character separator
RECURSIVE split(_, _)
split(s, c) ==
    LET i == FindChar(s, c)
    IN  IF i = 0 THEN <<s>>
        ELSE <<SubSeq(s, 1, i - 1)>> \o split(SubSeq(s, i + 1, Len(s)), c)

\* s.find(sub): position of the first occurrence of sub in s, 0 when none
FindSub(s, sub) ==
    IF StrIn(sub, s)
    THEN CHOOSE i \in 1..(Len(s) - Len(sub) + 1) :
            /\ SubSeq(s, i, i + Len(sub) - 1) = sub
            /\ \A k \in 1..(i - 1) : SubSeq(s, k, k + Len(sub) - 1) # sub
    ELSE 0

\* s.replace(old, new), old non-empty: the non-overlapping occurrences of old,
\* leftmost first
RECURSIVE replace(_, _, _)
replace(s, old, new) ==
    LET i == FindSub(s, old)
    IN  IF i = 0 THEN s
        ELSE SubSeq(s, 1, i - 1) \o new \o replace(SliceFrom(s, i + Len(old) - 1), old, new)

RECURSIVE ConcatAll(_)
ConcatAll(ss) == IF ss = <<>> THEN <<>> ELSE Head(ss) \o ConcatAll(Tail(ss))

\* sep.join(ss)
RECURSIVE join(_, _)
join(sep, ss) ==
    IF ss = <<>> THEN <<>>
    ELSE IF Len(ss) = 1 THEN ss[1]
    ELSE ss[1] \o sep \o join(sep, Tail(ss))

\* x in list
InList(x, l) == \E i \in 1..Len(l) : l[i] = x

(***************************************************************************)
(* Nodes.py: classify_item_type                                            *)
(***************************************************************************)
classify_item_type(name) ==
    IF StrIn(LT2 \o s_MessageConfig \o <<":">>, name) THEN "MessageConfig"
    ELSE IF StrIn(LT2 \o s_ClientTopic \o <<":">>, name) THEN "ClientTopic"
    ELSE IF StrIn(LT2 \o s_StandaloneFormula \o <<":">>, name) THEN "StandaloneFormula"
    ELSE IF StrIn(LT2 \o s_ClientPageLayout \o <<":">>, name) THEN "ClientPageLayout"
    ELSE IF StrIn(LT2 \o s_MessageCategory \o <<":">>, name) THEN "MessageCategory"
    ELSE IF StrIn(LT2 \o s_CustomFieldDef \o <<":">>, name) THEN "CustomFieldDef"
    ELSE IF StrIn(LT2 \o s_Incentive \o <<":">>, name) THEN "Incentive"
    ELSE IF StrIn(LT2 \o s_Rule \o <<":">>, name) THEN "Rule"
    ELSE IF StrIn(LT2 \o s_ClientRaffle \o <<":">>, name) THEN "ClientRaffle"
    ELSE IF StrIn(LT2 \o s_ClientReward \o <<":">>, name) THEN "ClientReward"
    ELSE IF StrIn(LT2 \o s_ClientProgram, name) THEN "ClientProgram"
    ELSE IF StrIn(LT2 \o s_ClientTaskHandlerDefinition \o <<":">>, name)
         THEN "ClientTaskHandlerDefinition"
    ELSE IF StrIn(LT2 \o s_RuleSet \o <<":">>, name)
         THEN (IF ~StrIn(s_None, name) THEN "RuleSet" ELSE None)
    ELSE None

(***************************************************************************)
(* Nodes.py: get_references, with re.finditer(r'<<(?:[^>]+)>>', string)    *)
(***************************************************************************)
\* first position >= i holding '>' (Len(s) + 1 when there is none): the end
\* of the greedy run [^>]+ started at i
RunEnd(s, i) ==
    CHOOSE e \in i..(Len(s) + 1) :
        /\ e = Len(s) + 1 \/ s[e] = ">"
        /\ \A k \in i..(e - 1) : s[k] # ">"

\* position of the last character of the match that starts at i, 0 if the
\* pattern does not match at i.  The run [^>]+ is followed by a '>' or by the
\* end of the text, so giving characters back never lets '>>' match.
MatchEnd(s, i) ==
    IF i + 1 <= Len(s) /\ s[i] = "<" /\ s[i + 1] = "<"
    THEN LET e == RunEnd(s, i + 2)
         IN  IF e > i + 2 /\ e + 1 <= Len(s) /\ s[e] = ">" /\ s[e + 1] = ">"
             THEN e + 1 ELSE 0
    ELSE 0

\* the non-overlapping matches, leftmost first, scanning from position i
RECURSIVE finditer(_, _)
finditer(s, i) ==
    IF \A k \in i..Len(s) : MatchEnd(s, k) = 0 THEN <<>>
    ELSE LET b == CHOOSE k \in i..Len(s) :
                      MatchEnd(s, k) # 0 /\ \A j \in i..(k - 1) : MatchEnd(s, j) = 0
             e == MatchEnd(s, b)
         IN  <<SubSeq(s, b, e)>> \o finditer(s, e + 1)

RECURSIVE CollectReferences(_, _)
CollectReferences(matches, references) ==
    IF matches = <<>> THEN references
    ELSE LET reference == strip(Head(matches))
         IN  CollectReferences(Tail(matches),
                 IF reference # <<>> /\ ~InList(reference, references)
                    /\ classify_item_type(reference) # None
                 THEN Append(references, reference)
                 ELSE references)

get_references(string) == CollectReferences(finditer(string, 1), <<>>)

(***************************************************************************)
(* JSON-shaped values as json.load returns them: None, str, list, dict.    *)
(* A dict is the sequence of its <<key, value>> pairs in insertion order.  *)
(***************************************************************************)
JNull == [t |-> "null", s |-> <<>>, kv |-> <<>>, el |-> <<>>]
JStr(x) == [t |-> "str", s |-> x, kv |-> <<>>, el |-> <<>>]
JList(x) == [t |-> "list", s |-> <<>>, kv |-> <<>>, el |-> x]
JDict(x) == [t |-> "dict", s |-> <<>>, kv |-> x, el |-> <<>>]

\* k in d, for a dict d
HasKey(d, k) == \E i \in 1..Len(d.kv) : d.kv[i][1] = k
\* d[k], for a dict d holding k
GetItem(d, k) == d.kv[CHOOSE i \in 1..Len(d.kv) : d.kv[i][1] = k][2]
\* d.get(k)
dict_get(d, k) == IF HasKey(d, k) THEN GetItem(d, k) ELSE JNull
\* v[k] with a string k evaluates (otherwise KeyError or TypeError)
SubscriptOK(v, k) == v.t = "dict" /\ HasKey(v, k)
\* bool(v)
Truthy(v) ==
    CASE v.t = "null" -> FALSE
      [] v.t = "str" -> v.s # <<>>
      [] v.t = "list" -> v.el # <<>>
      [] v.t = "dict" -> v.kv # <<>>

\* str(v) of a JSON-shaped value (Python repr).  The characters of the modelled
\* strings are letters, digits, spaces and the punctuation of reference keys,
\* for which repr is the text between single quotes.
RECURSIVE Repr(_)
Repr(v) ==
    CASE v.t = "null" -> s_None
      [] v.t = "str" -> <<"'">> \o v.s \o <<"'">>
      [] v.t = "list" ->
            <<"[">> \o join(<<",", " ">>, [i \in 1..Len(v.el) |-> Repr(v.el[i])]) \o <<"]">>
      [] v.t = "dict" ->
            <<"{">> \o join(<<",", " ">>,
                        [i \in 1..Len(v.kv) |->
                            <<"'">> \o v.kv[i][1] \o <<"'", ":", " ">> \o Repr(v.kv[i][2])])
                \o <<"}">>

(***************************************************************************)
(* Nodes.py: get_content.  A result is [raised, value]; raised names the   *)
(* exception that leaves the function, "" when it returns.                 *)
(***************************************************************************)
ContentNone == [k |-> "none", items |-> <<>>, text |-> <<>>]
ContentTuple(items) == [k |-> "tuple", items |-> items, text |-> <<>>]
ContentStr(text) == [k |-> "str", items |-> <<>>, text |-> text]

Returns(v) == [raised |-> "", value |-> v]
Raises(e) == [raised |-> e, value |-> ContentNone]

\* the values a for loop over v visits, for an iterable v
IterElements(v) ==
    CASE v.t = "list" -> v.el
      [] v.t = "str" -> [i \in 1..Len(v.s) |-> JStr(<<v.s[i]>>)]
      [] v.t = "dict" -> [i \in 1..Len(v.kv) |-> JStr(v.kv[i][1])]
      [] v.t = "null" -> <<>>

\* 'HTMLContent' in section, for a section that supports the in operator
SectionHasHTML(section) ==
    CASE section.t = "dict" -> HasKey(section, s_HTMLContent)
      [] section.t = "str" -> StrIn(s_HTMLContent, section.s)
      [] section.t = "list" -> InList(JStr(s_HTMLContent), section.el)
      [] section.t = "null" -> FALSE

\* the loop over json_obj['pageLayoutElements'] (lines 69-74)
RECURSIVE PageLayoutLoop(_, _)
PageLayoutLoop(sections, content) ==
    IF sections = <<>> THEN Returns(ContentStr(content))
    ELSE LET section == Head(sections)
         IN  IF section.t = "null" THEN Raises("TypeError")
             ELSE IF ~SectionHasHTML(section) THEN PageLayoutLoop(Tail(sections), content)
             ELSE IF section.t # "dict" THEN Raises("TypeError")
             ELSE LET html_content == GetItem(section, s_HTMLContent)
                  IN  IF html_content.t = "null"
                      THEN PageLayoutLoop(Tail(sections), content)
                      ELSE IF html_content.t # "str" THEN Raises("AttributeError")
                      ELSE IF strip(html_content.s) # <<>>
                      THEN PageLayoutLoop(Tail(sections),
                                          content \o html_content.s \o <<"\n">>)
                      ELSE PageLayoutLoop(Tail(sections), content)

get_content(json_obj, node_type, string) ==
    IF node_type = "MessageConfig" THEN
        IF ~HasKey(json_obj, s_message) THEN Raises("KeyError")
        ELSE LET message == GetItem(json_obj, s_message)
             IN  IF message.t # "dict" THEN Raises("TypeError")
                 ELSE IF ~HasKey(message, s_body) \/ ~HasKey(message, s_subject)
                         \/ ~HasKey(message, s_notificationText)
                 THEN Raises("KeyError")
                 ELSE Returns(ContentTuple(<<GetItem(message, s_body),
                                             GetItem(message, s_subject),
                                             GetItem(message, s_notificationText)>>))
    ELSE IF node_type = "Incentive" THEN
        IF ~HasKey(json_obj, s_name) \/ ~HasKey(json_obj, s_info) THEN Raises("KeyError")
        ELSE Returns(ContentTuple(<<GetItem(json_obj, s_name), GetItem(json_obj, s_info)>>))
    ELSE IF node_type = "CustomFieldDef" THEN
        IF ~HasKey(json_obj, s_defaultValue) THEN Raises("KeyError")
        ELSE LET dv == GetItem(json_obj, s_defaultValue)
                 default_value == IF StrIn(s_dummy_formula, string) /\ dv.t = "null"
                                  THEN JStr(s_Calculated_Using_Formula) ELSE dv
             IN  IF ~HasKey(json_obj, s_fieldType) \/ ~HasKey(json_obj, s_fieldDataType)
                 THEN Raises("KeyError")
                 ELSE Returns(ContentTuple(<<GetItem(json_obj, s_fieldType),
                                             GetItem(json_obj, s_fieldDataType),
                                             default_value>>))
    ELSE IF node_type = "ClientPageLayout" /\ HasKey(json_obj, s_pageLayoutElements) THEN
        LET elements == GetItem(json_obj, s_pageLayoutElements)
        IN  IF elements.t = "null" THEN Raises("TypeError")
            ELSE PageLayoutLoop(IterElements(elements), <<>>)
    ELSE Returns(ContentNone)

(***************************************************************************)
(* Nodes.py: find_nodes, the body of the loop over the items (lines 21-50) *)
(* An item result is [kind, err, node] with kind "skip" (no node emitted), *)
(* "raise" (an exception leaves find_nodes) or "node" (node appended).     *)
(***************************************************************************)
NoNode == [name |-> <<>>]
Skip == [kind |-> "skip", err |-> "", node |-> NoNode]
ItemRaises(e) == [kind |-> "raise", err |-> e, node |-> NoNode]

\* node_name[2:].split("[")[0].strip().split(":") (line 29 before [1])
DisplayNameParts(node_name) == split(strip(split(SliceFrom(node_name, 2), "[")[1]), ":")
\* node_name.split("[") (line 32 before [1])
ProgramParts(node_name) == split(node_name, "[")
ProgramOf(node_name) ==
    replace(SliceDropLast(strip(ProgramParts(node_name)[2]), 3), s_ClientProgramColon, <<>>)

\* the references as found, the node's own name among them
FilterNothing(refs, node_name) == refs

FilterSelf(refs, node_name) == SelectSeq(refs, LAMBDA r : r # node_name)

ProcessItem(item) ==
    IF item.t # "dict" THEN Skip
    ELSE LET key == dict_get(item, s_reference_comparison_key)
         IN  IF ~Truthy(key) THEN Skip
             ELSE IF key.t # "str" THEN ItemRaises("AttributeError")
             ELSE LET node_name == key.s
                      node_type == classify_item_type(node_name)
                      item_string == Repr(item)
                      content == get_content(item, node_type, item_string)
                  IN  IF Len(DisplayNameParts(node_name)) < 2 THEN ItemRaises("IndexError")
                      ELSE IF Len(ProgramParts(node_name)) < 2 THEN ItemRaises("IndexError")
                      ELSE IF content.raised # "" THEN ItemRaises(content.raised)
                      ELSE IF node_type = None THEN Skip
                      ELSE [kind |-> "node", err |-> "",
                            node |-> [name |-> node_name,
                                      display_name |-> strip(DisplayNameParts(node_name)[2]),
                                      class |-> node_type,
                                      program |-> ProgramOf(node_name),
                                      content |-> content.value,
                                      connections |->
                                          FilterSelf(get_references(item_string), node_name),
                                      order |-> "primary",
                                      query |-> IF StrIn(s_qry, item_string)
                                                THEN "True" ELSE "False",
                                      raw |-> item]]

(***************************************************************************)
(* Nodes.py: find_nodes over the documents of a snapshot.  A document is   *)
(* [parse, val]: parse = "bad" when json.load (or open) raises on it.      *)
(* The result is [err, nodes]; err names the exception that leaves         *)
(* find_nodes ("" when it returns), and nodes is then not returned.        *)
(***************************************************************************)
GoodDoc(v) == [parse |-> "ok", val |-> v]
BadDoc == [parse |-> "bad", val |-> JNull]

\* lines 15-17: the items of one category that carry the marker field
MarkedItems(json_items) ==
    IF json_items.t # "list" THEN <<>>
    ELSE SelectSeq(json_items.el,
                   LAMBDA json_item : json_item.t = "dict"
                                      /\ HasKey(json_item, s_reference_comparison_key))

\* lines 10-18: [err, items], the flat list of items of a document
Flatten(json_code) ==
    IF json_code.t = "list" THEN [err |-> "", items |-> json_code.el]
    ELSE IF json_code.t # "dict" THEN [err |-> "TypeError", items |-> <<>>]
    ELSE IF ~HasKey(json_code, s_children) THEN [err |-> "KeyError", items |-> <<>>]
    ELSE LET children == GetItem(json_code, s_children)
         IN  IF children.t # "dict" THEN [err |-> "AttributeError", items |-> <<>>]
             ELSE [err |-> "",
                   items |-> ConcatAll([i \in 1..Len(children.kv) |->
                                           MarkedItems(children.kv[i][2])])]

\* lines 21-50 over the items of one document, appending to nodes
RECURSIVE ItemsLoop(_, _)
ItemsLoop(items, nodes) ==
    IF items = <<>> THEN [err |-> "", nodes |-> nodes]
    ELSE LET r == ProcessItem(Head(items))
         IN  IF r.kind = "raise" THEN [err |-> r.err, nodes |-> nodes]
             ELSE ItemsLoop(Tail(items),
                            IF r.kind = "node" THEN Append(nodes, r.node) ELSE nodes)

\* the loop over the documents going on to the next document when one cannot
\* be read
RECURSIVE FilesLoopSkipping(_, _)
FilesLoopSkipping(docs, nodes) ==
    IF docs = <<>> THEN [err |-> "", nodes |-> nodes]
    ELSE IF Head(docs).parse = "bad" THEN FilesLoopSkipping(Tail(docs), nodes)
    ELSE LET fl == Flatten(Head(docs).val)
         IN  IF fl.err # "" THEN FilesLoopSkipping(Tail(docs), nodes)
             ELSE LET r == ItemsLoop(fl.items, nodes)
                  IN  IF r.err # "" THEN r ELSE FilesLoopSkipping(Tail(docs), r.nodes)

\* lines 7-52
RECURSIVE FilesLoop(_, _)
FilesLoop(docs, nodes) ==
    IF docs = <<>> THEN [err |-> "", nodes |-> nodes]
    ELSE IF Head(docs).parse = "bad" THEN [err |-> "JSONDecodeError", nodes |-> nodes]
    ELSE LET fl == Flatten(Head(docs).val)
         IN  IF fl.err # "" THEN [err |-> fl.err, nodes |-> nodes]
             ELSE LET r == ItemsLoop(fl.items, nodes)
                  IN  IF r.err # "" THEN r ELSE FilesLoop(Tail(docs), r.nodes)

find_nodes(docs) == FilesLoop(docs, <<>>)

(***************************************************************************)
(* Nodes.py: create_secondary_nodes.  The loop of lines 136-171 runs over  *)
(* the list it appends to; its state is [all_nodes, all_nodes_names, ni,   *)
(* ci, err]: ni and ci are the positions of the node and of the connection *)
(* the loops are at.                                                       *)
(***************************************************************************)
NodeNames(nodes) == {nodes[i].name : i \in 1..Len(nodes)}

\* the list started from the last node to the first
SecondaryStartReversed(nodes) ==
    [all_nodes |-> [i \in 1..Len(nodes) |-> nodes[Len(nodes) + 1 - i]],
     all_nodes_names |-> NodeNames(nodes),
     ni |-> 1, ci |-> 1, err |-> ""]

\* lines 129-134
SecondaryStart(nodes) ==
    [all_nodes |-> nodes, all_nodes_names |-> NodeNames(nodes),
     ni |-> 1, ci |-> 1, err |-> ""]

\* line 142
EligibleKey(connection) ==
    startswith(connection, LT2) /\ endswith(connection, GT2) /\ StrIn(<<":">>, connection)

\* lines 147-168: the exception raised while building new_node, "" if none
NewNodeRaises(connection) ==
    IF classify_item_type(connection) = "ClientProgram"
    THEN IF Len(split(connection, ":")) < 2 THEN "IndexError" ELSE ""
    ELSE IF Len(DisplayNameParts(connection)) < 2 \/ Len(ProgramParts(connection)) < 2
         THEN "IndexError" ELSE ""

\* a synthesized node with '' for its content
new_node_empty_content(connection) ==
    IF classify_item_type(connection) = "ClientProgram"
    THEN [name |-> connection,
          display_name |-> SliceDropLast(strip(split(connection, ":")[2]), 2),
          class |-> classify_item_type(connection),
          program |-> SliceDropLast(strip(split(connection, ":")[2]), 2),
          content |-> ContentStr(<<>>),
          connections |-> <<>>,
          order |-> "secondary",
          query |-> "False"]
    ELSE [name |-> connection,
          display_name |-> strip(DisplayNameParts(connection)[2]),
          class |-> classify_item_type(connection),
          program |-> ProgramOf(connection),
          content |-> ContentStr(<<>>),
          connections |-> <<>>,
          order |-> "secondary",
          query |-> "False"]

new_node(connection) ==
    IF classify_item_type(connection) = "ClientProgram"
    THEN [name |-> connection,
          display_name |-> SliceDropLast(strip(split(connection, ":")[2]), 2),
          class |-> classify_item_type(connection),
          program |-> SliceDropLast(strip(split(connection, ":")[2]), 2),
          content |-> ContentNone,
          connections |-> <<>>,
          order |-> "secondary",
          query |-> "False"]
    ELSE [name |-> connection,
          display_name |-> strip(DisplayNameParts(connection)[2]),
          class |-> classify_item_type(connection),
          program |-> ProgramOf(connection),
          content |-> ContentNone,
          connections |-> <<>>,
          order |-> "secondary",
          query |-> "False"]

SecondaryDone(st) == st.err # "" \/ st.ni > Len(st.all_nodes)

\* the pass of the loop that does not record the connection as seen
SecondaryStepUnseen(st) ==
    LET node == st.all_nodes[st.ni]
    IN  IF st.ci > Len(node.connections)
        THEN [st EXCEPT !.ni = st.ni + 1, !.ci = 1]
        ELSE LET connection == strip(node.connections[st.ci])
                 next == [st EXCEPT !.ci = st.ci + 1]
             IN  IF connection \in st.all_nodes_names THEN next
                 ELSE IF ~EligibleKey(connection) THEN next
                 ELSE IF NewNodeRaises(connection) # ""
                 THEN [next EXCEPT !.err = NewNodeRaises(connection)]
                 ELSE IF new_node(connection).class # None
                 THEN [next EXCEPT !.all_nodes = Append(@, new_node(connection))]
                 ELSE next

\* one pass of the inner loop body (lines 137-171), or the move to the next
\* node when the connections of the current node are exhausted
SecondaryStep(st) ==
    LET node == st.all_nodes[st.ni]
    IN  IF st.ci > Len(node.connections)
        THEN [st EXCEPT !.ni = st.ni + 1, !.ci = 1]
        ELSE LET connection == strip(node.connections[st.ci])
                 next == [st EXCEPT !.ci = st.ci + 1]
             IN  IF connection \in st.all_nodes_names THEN next
                 ELSE LET seen == [next EXCEPT !.all_nodes_names = @ \cup {connection}]
                      IN  IF ~EligibleKey(connection) THEN seen
                          ELSE IF NewNodeRaises(connection) # ""
                          THEN [seen EXCEPT !.err = NewNodeRaises(connection)]
                          ELSE IF new_node(connection).class # None
                          THEN [seen EXCEPT !.all_nodes = Append(@, new_node(connection))]
                          ELSE seen

RECURSIVE SecondaryRun(_)
SecondaryRun(st) == IF SecondaryDone(st) THEN st ELSE SecondaryRun(SecondaryStep(st))

\* [err, nodes]: the list create_secondary_nodes returns, or the exception
create_secondary_nodes(nodes) ==
    LET st == SecondaryRun(SecondaryStart(nodes))
    IN  [err |-> st.err, nodes |-> st.all_nodes]

(***************************************************************************)
(* Python ordering of str (by code point) and sorted()                     *)
(***************************************************************************)
\* the character U+2026 of the depth placeholder
c_ellipsis == "U+2026"

CharOrder ==
    <<"\n",
      " ", "!", "\"", "#", "$", "%", "&", "'", "(", ")", "*", "+", ",", "-",
      ".", "/", "0", "1", "2", "3", "4", "5", "6", "7", "8", "9", ":", ";",
      "<", "=", ">", "?", "@", "A", "B", "C", "D", "E", "F", "G", "H", "I",
      "J", "K", "L", "M", "N", "O", "P", "Q", "R", "S", "T", "U", "V", "W",
      "X", "Y", "Z", "[", "\\", "]", "^", "_", "a", "b", "c", "d", "e",
      "f", "g", "h", "i", "j", "k", "l", "m", "n", "o", "p", "q", "r", "s",
      "t", "u", "v", "w", "x", "y", "z", "{", "|", "}", "~", c_ellipsis>>

Ord(c) == CHOOSE i \in 1..Len(CharOrder) : CharOrder[i] = c

\* a < b
StrLess(a, b) ==
    \E i \in 1..Len(b) :
        /\ \A k \in 1..(i - 1) : k <= Len(a) /\ a[k] = b[k]
        /\ i > Len(a) \/ Ord(a[i]) < Ord(b[i])

\* sorted(S) for a set S of strings
RECURSIVE sorted(_)
sorted(S) ==
    IF S = {} THEN <<>>
    ELSE LET m == CHOOSE x \in S : \A y \in S \ {x} : StrLess(x, y)
         IN  <<m>> \o sorted(S \ {m})

Keys(d) == {d.kv[i][1] : i \in 1..Len(d.kv)}

\* the keys of a dict as inserted, not sorted
KeysAsInserted(d) == [i \in 1..Len(d.kv) |-> d.kv[i][1]]

\* the keys of a dict in sorted order: sorted(val.keys()) of _truncate_depth
\* and sort_keys=True of json.dumps
SortedKeys(d) == sorted(Keys(d))

(***************************************************************************)
(* Compare.py: _truncate_depth, json.dumps(indent=2, sort_keys=True),      *)
(* _node_json_pretty                                                       *)
(***************************************************************************)
\* the placeholder "<U+2026 depth limit U+2026>" of line 54
s_depth_limit ==
    <<"<", c_ellipsis, " ", "d", "e", "p", "t", "h", " ", "l", "i", "m", "i", "t", " ",
      c_ellipsis, ">">>

\* the default of max_depth, also passed by build_compare
DefaultMaxDepth == 10

\* _truncate_depth cutting one level too late (depth > max_depth)
RECURSIVE _truncate_depth_late(_, _, _)
_truncate_depth_late(val, depth, max_depth) ==
    IF depth > max_depth THEN JStr(s_depth_limit)
    ELSE IF val.t = "dict"
    THEN LET ks == SortedKeys(val)
         IN  JDict([i \in 1..Len(ks) |->
                       <<ks[i], _truncate_depth_late(GetItem(val, ks[i]), depth + 1, max_depth)>>])
    ELSE IF val.t = "list"
    THEN JList([i \in 1..Len(val.el) |->
                   _truncate_depth_late(val.el[i], depth + 1, max_depth)])
    ELSE val

RECURSIVE _truncate_depth(_, _, _)
_truncate_depth(val, depth, max_depth) ==
    IF depth >= max_depth THEN JStr(s_depth_limit)
    ELSE IF val.t = "dict"
    THEN LET ks == SortedKeys(val)
         IN  JDict([i \in 1..Len(ks) |->
                       <<ks[i], _truncate_depth(GetItem(val, ks[i]), depth + 1, max_depth)>>])
    ELSE IF val.t = "list"
    THEN JList([i \in 1..Len(val.el) |-> _truncate_depth(val.el[i], depth + 1, max_depth)])
    ELSE val

\* json.dumps of one character of a string, ensure_ascii on
EscapeChar(c) ==
    IF c = "\"" THEN <<"\\", "\"">>
    ELSE IF c = "\\" THEN <<"\\", "\\">>
    ELSE IF c = "\n" THEN <<"\\", "n">>
    ELSE IF c = c_ellipsis THEN <<"\\", "u", "2", "0", "2", "6">>
    ELSE <<c>>

DumpsStr(x) == <<"\"">> \o ConcatAll([i \in 1..Len(x) |-> EscapeChar(x[i])]) \o <<"\"">>

\* newline and the indentation of a nesting level, indent=2
NewlineIndent(level) == <<"\n">> \o [i \in 1..(2 * level) |-> " "]

\* json.dumps(v, indent=2, sort_keys=True), v nested at the given level
RECURSIVE Dumps(_, _)
Dumps(v, level) ==
    CASE v.t = "null" -> <<"n", "u", "l", "l">>
      [] v.t = "str" -> DumpsStr(v.s)
      [] v.t = "list" ->
            IF v.el = <<>> THEN <<"[", "]">>
            ELSE <<"[">> \o NewlineIndent(level + 1)
                 \o join(<<",">> \o NewlineIndent(level + 1),
                         [i \in 1..Len(v.el) |-> Dumps(v.el[i], level + 1)])
                 \o NewlineIndent(level) \o <<"]">>
      [] v.t = "dict" ->
            IF v.kv = <<>> THEN <<"{", "}">>
            ELSE LET ks == SortedKeys(v)
                 IN  <<"{">> \o NewlineIndent(level + 1)
                     \o join(<<",">> \o NewlineIndent(level + 1),
                             [i \in 1..Len(ks) |->
                                 DumpsStr(ks[i]) \o <<":", " ">>
                                 \o Dumps(GetItem(v, ks[i]), level + 1)])
                     \o NewlineIndent(level) \o <<"}">>

\* Python's None where a node is expected (dict.get on a missing name)
NoneNode == [none |-> TRUE]
IsNone(x) == "none" \in DOMAIN x

\* bool(node.get('json')) and node.get('json') or ''
JsonTruthy(node) == "json" \in DOMAIN node /\ node.json # <<>>
JsonOrEmpty(node) == IF JsonTruthy(node) THEN node.json ELSE <<>>

_node_json_pretty(node, max_depth) ==
    IF IsNone(node) THEN <<>>
    ELSE IF "raw" \in DOMAIN node /\ node.raw.t # "null"
    THEN Dumps(_truncate_depth(node.raw, 0, max_depth), 0)
    ELSE JsonOrEmpty(node)

(***************************************************************************)
(* Compare.py: _load_nodes, _classify_diff                                 *)
(***************************************************************************)
\* the mapping that keeps the first node of a name
ByNameFirst(nodes) ==
    [n \in NodeNames(nodes) |->
        nodes[CHOOSE i \in 1..Len(nodes) :
                  nodes[i].name = n /\ \A k \in 1..(i - 1) : nodes[k].name # n]]

\* {n['name']: n for n in nodes}: a later node replaces an earlier one of the
\* same name
ByName(nodes) ==
    [n \in NodeNames(nodes) |->
        nodes[CHOOSE i \in 1..Len(nodes) :
                  nodes[i].name = n /\ \A k \in (i + 1)..Len(nodes) : nodes[k].name # n]]

\* [err, by_name]
_load_nodes(docs) ==
    LET r == find_nodes(docs)
    IN  [err |-> r.err, by_name |-> ByName(r.nodes)]

\* mapping.get(name)
MapGet(mapping, name) == IF name \in DOMAIN mapping THEN mapping[name] ELSE NoneNode

\* _classify_diff reporting a name of one side only as changed
_classify_diff_onesided(a_node, b_node) ==
    IF IsNone(a_node) /\ IsNone(b_node) THEN "distinct"
    ELSE IF IsNone(a_node) \/ IsNone(b_node) THEN "changed"
    ELSE LET a_primary == a_node.order = "primary" /\ JsonTruthy(a_node)
             b_primary == b_node.order = "primary" /\ JsonTruthy(b_node)
         IN  IF a_primary # b_primary THEN "changed"
             ELSE IF JsonOrEmpty(a_node) = JsonOrEmpty(b_node) THEN "same"
             ELSE "changed"

_classify_diff(a_node, b_node) ==
    IF IsNone(a_node) \/ IsNone(b_node) THEN "distinct"
    ELSE LET a_primary == a_node.order = "primary" /\ JsonTruthy(a_node)
             b_primary == b_node.order = "primary" /\ JsonTruthy(b_node)
         IN  IF a_primary # b_primary THEN "changed"
             ELSE IF JsonOrEmpty(a_node) = JsonOrEmpty(b_node) THEN "same"
             ELSE "changed"

(***************************************************************************)
(* Compare.py: _leading_spaces, _dedent_block                              *)
(***************************************************************************)
_leading_spaces(s) ==
    IF \A i \in 1..Len(s) : s[i] = " " THEN Len(s)
    ELSE (CHOOSE i \in 1..Len(s) : s[i] # " " /\ \A k \in 1..(i - 1) : s[k] = " ") - 1

\* min of a non-empty set of numbers
SetMin(S) == CHOOSE x \in S : \A y \in S : x <= y

_dedent_block(block) ==
    LET non_empty == SelectSeq(block, LAMBDA ln : strip(ln) # <<>>)
    IN  IF non_empty = <<>> THEN block
        ELSE LET min_indent ==
                     SetMin({_leading_spaces(non_empty[i]) : i \in 1..Len(non_empty)})
             IN  IF min_indent <= 0 THEN block
                 ELSE [i \in 1..Len(block) |->
                          IF Len(block[i]) >= min_indent
                          THEN SliceFrom(block[i], min_indent) ELSE block[i]]

(***************************************************************************)
(* str.splitlines and difflib.SequenceMatcher(a=a_lines, b=b_lines)        *)
(* .get_opcodes(), as _two_column_diff uses them (lines 108-110, 128).     *)
(* Positions are Python's: a[i] is the element i + 1 of the sequence a,    *)
(* and a run [lo, hi) holds the positions lo .. hi - 1.  No element is     *)
(* junk: isjunk is None, and the autojunk heuristic needs 200 lines.       *)
(***************************************************************************)
\* text.splitlines(), for texts whose only line boundary is "\n"
splitlines(text) ==
    LET parts == split(text, "\n")
    IN  IF parts[Len(parts)] = <<>> THEN SubSeq(parts, 1, Len(parts) - 1) ELSE parts

\* the length of the longest common run of a and b that starts at a[i], b[j]
\* and stays below ahi, bhi
RunLength(a, b, i, j, ahi, bhi) ==
    CHOOSE k \in 0..Min(ahi - i, bhi - j) :
        /\ \A m \in 0..(k - 1) : a[i + m + 1] = b[j + m + 1]
        /\ k = Min(ahi - i, bhi - j) \/ a[i + k + 1] # b[j + k + 1]

\* SequenceMatcher.find_longest_match: a longest matching block of
\* a[alo:ahi] and b[blo:bhi]; of the longest ones the one that starts
\* earliest in a, and of those the one that starts earliest in b
find_longest_match(a, b, alo, ahi, blo, bhi) ==
    LET sizes == {RunLength(a, b, i, j, ahi, bhi) : i \in alo..(ahi - 1), j \in blo..(bhi - 1)}
        bestsize == IF sizes = {} THEN 0 ELSE CHOOSE k \in sizes : \A x \in sizes : x <= k
    IN  IF bestsize = 0 THEN [i |-> alo, j |-> blo, k |-> 0]
        ELSE LET besti == SetMin({i \in alo..(ahi - 1) :
                                     \E j \in blo..(bhi - 1) :
                                         RunLength(a, b, i, j, ahi, bhi) = bestsize})
                 bestj == SetMin({j \in blo..(bhi - 1) :
                                     RunLength(a, b, besti, j, ahi, bhi) = bestsize})
             IN  [i |-> besti, j |-> bestj, k |-> bestsize]

\* the matching blocks of a[alo:ahi] and b[blo:bhi], in order: the longest
\* match, and the blocks to its left and to its right
RECURSIVE MatchingBlocks(_, _, _, _, _, _)
MatchingBlocks(a, b, alo, ahi, blo, bhi) ==
    LET m == find_longest_match(a, b, alo, ahi, blo, bhi)
    IN  IF m.k = 0 THEN <<>>
        ELSE (IF alo < m.i /\ blo < m.j
              THEN MatchingBlocks(a, b, alo, m.i, blo, m.j) ELSE <<>>)
             \o <<m>>
             \o (IF m.i + m.k < ahi /\ m.j + m.k < bhi
                 THEN MatchingBlocks(a, b, m.i + m.k, ahi, m.j + m.k, bhi) ELSE <<>>)

\* get_matching_blocks: adjacent blocks merged, and the sentinel block
RECURSIVE CollapseBlocks(_, _, _)
CollapseBlocks(blocks, cur, out) ==
    IF blocks = <<>> THEN (IF cur.k > 0 THEN Append(out, cur) ELSE out)
    ELSE LET m == Head(blocks)
         IN  IF cur.i + cur.k = m.i /\ cur.j + cur.k = m.j
             THEN CollapseBlocks(Tail(blocks), [cur EXCEPT !.k = cur.k + m.k], out)
             ELSE CollapseBlocks(Tail(blocks), m,
                                 IF cur.k > 0 THEN Append(out, cur) ELSE out)

get_matching_blocks(a, b) ==
    Append(CollapseBlocks(MatchingBlocks(a, b, 0, Len(a), 0, Len(b)),
                          [i |-> 0, j |-> 0, k |-> 0], <<>>),
           [i |-> Len(a), j |-> Len(b), k |-> 0])

Opcode(tag, i1, i2, j1, j2) == [tag |-> tag, i1 |-> i1, i2 |-> i2, j1 |-> j1, j2 |-> j2]

\* get_opcodes: the runs between and in the matching blocks; i and j are the
\* positions reached in a and b
RECURSIVE OpcodesFrom(_, _, _)
OpcodesFrom(blocks, i, j) ==
    IF blocks = <<>> THEN <<>>
    ELSE LET m == Head(blocks)
             tag == IF i < m.i /\ j < m.j THEN "replace"
                    ELSE IF i < m.i THEN "delete"
                    ELSE IF j < m.j THEN "insert"
                    ELSE ""
         IN  (IF tag # "" THEN <<Opcode(tag, i, m.i, j, m.j)>> ELSE <<>>)
             \o (IF m.k > 0 THEN <<Opcode("equal", m.i, m.i + m.k, m.j, m.j + m.k)>> ELSE <<>>)
             \o OpcodesFrom(Tail(blocks), m.i + m.k, m.j + m.k)

\* the opcodes of the matcher built with its two sequences exchanged
get_opcodes_exchanged(a, b) == OpcodesFrom(get_matching_blocks(b, a), 0, 0)

get_opcodes(a, b) == OpcodesFrom(get_matching_blocks(a, b), 0, 0)

\* a[lo:hi]
Slice(a, lo, hi) == SubSeq(a, lo + 1, hi)

(***************************************************************************)
(* Compare.py: _two_column_diff, the cells one opcode run adds to the two  *)
(* columns (lines 129-160).  A cell is html.Div(text, style=style).        *)
(***************************************************************************)
Cell(text, style) == [text |-> text, style |-> style]

\* rows of a block with the padding before its lines
PaddedCellsLeading(block, height, style) ==
    [idx \in 1..height |->
        LET txt == IF idx > height - Len(block) THEN block[idx - (height - Len(block))]
                   ELSE <<>>
        IN  Cell(txt, IF txt # <<>> THEN style ELSE "empty_style")]

\* lines 134-138 and 144-148: rows of two blocks side by side, the shorter
\* block padded; a cell of empty text gets empty_style
PaddedCells(block, height, style) ==
    [idx \in 1..height |->
        LET txt == IF idx <= Len(block) THEN block[idx] ELSE <<>>
        IN  Cell(txt, IF txt # <<>> THEN style ELSE "empty_style")]

\* a replace run without the padding of the shorter block
RunCellsUnpadded(tag, a_slice, b_slice) ==
    LET left_block == _dedent_block(a_slice)
        right_block == _dedent_block(b_slice)
        height == Max(Len(left_block), Len(right_block))
    IN  IF tag = "equal"
        THEN [left |-> PaddedCells(left_block, height, "eq_style"),
              right |-> PaddedCells(right_block, height, "eq_style")]
        ELSE IF tag = "replace"
        THEN [left |-> PaddedCells(left_block, Len(left_block), "del_style"),
              right |-> PaddedCells(right_block, Len(right_block), "add_style")]
        ELSE IF tag = "delete"
        THEN [left |-> [k \in 1..Len(left_block) |-> Cell(left_block[k], "del_style")],
              right |-> [k \in 1..Len(left_block) |-> Cell(<<>>, "empty_style")]]
        ELSE IF tag = "insert"
        THEN [left |-> [k \in 1..Len(right_block) |-> Cell(<<>>, "empty_style")],
              right |-> [k \in 1..Len(right_block) |-> Cell(right_block[k], "add_style")]]
        ELSE [left |-> <<>>, right |-> <<>>]

\* [left, right]: the cells of the run tag over a_lines[i1:i2], b_lines[j1:j2]
RunCells(tag, a_slice, b_slice) ==
    LET left_block == _dedent_block(a_slice)
        right_block == _dedent_block(b_slice)
        height == Max(Len(left_block), Len(right_block))
    IN  IF tag = "equal"
        THEN [left |-> PaddedCells(left_block, height, "eq_style"),
              right |-> PaddedCells(right_block, height, "eq_style")]
        ELSE IF tag = "replace"
        THEN [left |-> PaddedCells(left_block, height, "del_style"),
              right |-> PaddedCells(right_block, height, "add_style")]
        ELSE IF tag = "delete"
        THEN [left |-> [k \in 1..Len(left_block) |-> Cell(left_block[k], "del_style")],
              right |-> [k \in 1..Len(left_block) |-> Cell(<<>>, "empty_style")]]
        ELSE IF tag = "insert"
        THEN [left |-> [k \in 1..Len(right_block) |-> Cell(<<>>, "empty_style")],
              right |-> [k \in 1..Len(right_block) |-> Cell(right_block[k], "add_style")]]
        ELSE [left |-> <<>>, right |-> <<>>]

(***************************************************************************)
(* Bounds and input documents                                              *)
(***************************************************************************)
\* most items in the documents of one snapshot
MaxItems == 2
\* most documents in one snapshot
MaxFiles == 2
\* most lines in a text to diff
MaxLines == 3

s_ClientProgramOpen == <<"[">> \o s_ClientProgramColon
\* <<Class:Name[ClientProgram:Program]>>
RefKey(class, name, program) ==
    LT2 \o class \o <<":">> \o name \o s_ClientProgramOpen \o program \o <<"]">> \o GT2

k_rule == RefKey(s_Rule, <<"a">>, <<"p">>)
k_topic == RefKey(s_ClientTopic, <<"t">>, <<"p">>)
k_incentive == RefKey(s_Incentive, <<"b">>, <<"p">>)
k_message == RefKey(s_MessageConfig, <<"m">>, <<"p">>)
k_field == RefKey(s_CustomFieldDef, <<"c">>, <<"p">>)
k_layout == RefKey(s_ClientPageLayout, <<"l">>, <<"p">>)
k_unknown == RefKey(<<"F","o","o">>, <<"a">>, <<"p">>)
\* a program key, as lines 147-152 expect it
k_program == LT2 \o s_ClientProgramColon \o <<"p">> \o GT2
\* bracketed texts that are not reference keys
k_program_nocolon == LT2 \o s_ClientProgram \o <<"p">> \o GT2
k_nobracket == LT2 \o s_Rule \o <<":", "z">> \o GT2

s_text == <<"t","e","x","t">>

\* an item with marker field key, a free-text field (left out when empty) and
\* further fields
ItemWith(key, text, fields) ==
    JDict(<< <<s_reference_comparison_key, JStr(key)>> >>
          \o (IF text = <<>> THEN <<>> ELSE << <<s_text, JStr(text)>> >>)
          \o fields)

\* free texts: the references an item makes
RefTexts ==
    {<<>>, k_rule, k_topic, k_incentive, k_program, k_program_nocolon, k_nobracket,
     k_topic \o <<" ">> \o k_incentive}

\* items of classes without class-specific content
RefCatalog ==
    {ItemWith(k, t, <<>>) : k \in {k_rule, k_topic}, t \in RefTexts}
    \cup {ItemWith(k_unknown, k_rule, <<>>)}

\* marker values that are no reference keys of a recognized class
k_nocolon == LT2 \o s_Rule \o s_ClientProgramOpen \o <<"p", "]">> \o GT2
k_plain == <<"F", "o", "o">>
k_unknown_nobracket == LT2 \o <<"F", "o", "o", ":", "z">> \o GT2

\* the marker values of KeyCatalog that find_nodes is to skip
SkippedKeys == {k_unknown, k_nobracket, k_nocolon, k_plain, k_unknown_nobracket}

\* items that make no references: two of recognized classes, the others with
\* a marker value of an unrecognized class or outside the bracket grammar
KeyCatalog == {ItemWith(k, <<>>, <<>>) : k \in {k_rule, k_topic} \cup SkippedKeys}

\* items of which several carry the same reference key with other fields
CollideCatalog ==
    {ItemWith(k_rule, <<>>, <<>>),
     ItemWith(k_rule, k_topic, <<>>),
     ItemWith(k_rule, <<>>, << <<s_name, JStr(<<"n">>)>> >>),
     ItemWith(k_topic, <<>>, <<>>)}

\* the 13 class names classify_item_type tests for
RecognizedClasses ==
    {s_MessageConfig, s_ClientTopic, s_StandaloneFormula, s_ClientPageLayout,
     s_MessageCategory, s_CustomFieldDef, s_Incentive, s_Rule, s_ClientRaffle,
     s_ClientReward, s_ClientProgram, s_ClientTaskHandlerDefinition, s_RuleSet}

\* class-prefixes that are no class names
OtherPrefixes ==
    {<<"F", "o", "o">>, s_ClientProgram \o <<"X">>, <<"r", "u", "l", "e">>,
     s_RuleSet \o <<"s">>, <<>>}

\* names to classify: keys of every class-prefix, with 'None' in the name or
\* in the program, and some texts that are no keys
ClassifyNames ==
    {RefKey(c, n, g) : c \in RecognizedClasses \cup OtherPrefixes,
                       n \in {<<"a">>, s_None}, g \in {<<"p">>, s_None}}
    \cup {k_program, k_program_nocolon, k_nobracket, k_plain, <<"x">> \o k_rule,
          LT2 \o <<"F", "o", "o", ":", "x">> \o k_rule}

\* documents: lists of items, a bucketed document, and documents that cannot
\* be read (not parseable, or neither a list nor bucketed)
DocCatalog ==
    {GoodDoc(JList(<<>>)),
     GoodDoc(JList(<<ItemWith(k_rule, <<>>, <<>>)>>)),
     GoodDoc(JList(<<ItemWith(k_topic, k_rule, <<>>)>>)),
     GoodDoc(JDict(<< <<s_children,
                       JDict(<< <<<<"b">>, JList(<<ItemWith(k_topic, k_rule, <<>>), JStr(<<"x">>)>>)>>,
                                <<<<"c">>, JStr(<<"x">>)>> >>)>> >>)),
     BadDoc,
     GoodDoc(JDict(<<>>)),
     GoodDoc(JDict(<< <<s_children, JList(<<>>)>> >>)),
     GoodDoc(JStr(<<"x">>)),
     GoodDoc(JNull)}

\* class-specific fields (get_content, lines 57-75)
f_message_full ==
    << <<s_message, JDict(<< <<s_body, JStr(<<"h","i">>)>>, <<s_subject, JStr(<<"s">>)>>,
                             <<s_notificationText, JNull>> >>)>> >>
f_message_partial == << <<s_message, JDict(<< <<s_body, JStr(<<"h","i">>)>> >>)>> >>
f_incentive_full == << <<s_name, JStr(<<"n">>)>>, <<s_info, JStr(<<"i">>)>> >>
f_incentive_partial == << <<s_name, JStr(<<"n">>)>> >>
f_field_full ==
    << <<s_fieldType, JStr(<<"T">>)>>, <<s_fieldDataType, JStr(s_dummy_formula)>>,
       <<s_defaultValue, JNull>> >>
f_field_partial == << <<s_fieldType, JStr(<<"T">>)>>, <<s_fieldDataType, JStr(<<"D">>)>> >>
f_layout_empty == << <<s_pageLayoutElements, JList(<<>>)>> >>
f_layout_full ==
    << <<s_pageLayoutElements,
         JList(<< JDict(<< <<s_HTMLContent, JStr(<<"h">>)>> >>),
                  JDict(<< <<s_HTMLContent, JStr(<<" ">>)>> >>),
                  JDict(<< <<s_HTMLContent, JNull>> >>),
                  JDict(<< <<s_name, JStr(<<"n">>)>> >>),
                  JDict(<< <<s_HTMLContent, JStr(<<"g">>)>> >>) >>)>> >>

\* items of the classes with class-specific content, their fields present,
\* partly present or absent
ContentCatalog ==
    {ItemWith(k_message, <<>>, f) : f \in {<<>>, f_message_partial, f_message_full}}
    \cup {ItemWith(k_incentive, <<>>, f) : f \in {<<>>, f_incentive_partial, f_incentive_full}}
    \cup {ItemWith(k_field, <<>>, f) : f \in {<<>>, f_field_partial, f_field_full}}
    \cup {ItemWith(k_layout, <<>>, f) : f \in {<<>>, f_layout_empty, f_layout_full}}
    \cup {ItemWith(k_rule, <<>>, <<>>)}

s_deep == <<"d","e","e","p">>

\* v wrapped in n lists
RECURSIVE Nest(_, _)
Nest(v, n) == IF n = 0 THEN v ELSE JList(<<Nest(v, n - 1)>>)

\* an item whose field 'deep' holds the string x nested at the given depth
\* below the item (the item is at depth 0, its field values at depth 1)
DeepItem(key, x, depth) ==
    ItemWith(key, <<>>, << <<s_deep, Nest(JStr(x), depth - 1)>> >>)

\* the same item as ItemWith(key, text, <<>>), its fields in the other order
ItemReordered(key, text) ==
    JDict(<< <<s_text, JStr(text)>>, <<s_reference_comparison_key, JStr(key)>> >>)

\* items of two snapshots to compare: one entity in several revisions, with
\* and without references, with values at and next to the depth limit
CompareCatalog ==
    {ItemWith(k_rule, t, <<>>) : t \in {<<>>, k_incentive, k_topic}}
    \cup {ItemReordered(k_rule, k_incentive)}
    \cup {DeepItem(k_rule, <<"x">>, DefaultMaxDepth - 1),
          DeepItem(k_rule, <<"x">>, DefaultMaxDepth),
          DeepItem(k_rule, <<"y">>, DefaultMaxDepth)}
    \cup {ItemWith(k_topic, <<>>, <<>>)}

\* the item lists one edit away from items: an item replaced, removed or added
EditsOf(items, catalog) ==
    {items}
    \cup {[items EXCEPT ![i] = c] : i \in 1..Len(items), c \in catalog}
    \cup {SubSeq(items, 1, i - 1) \o SubSeq(items, i + 1, Len(items)) : i \in 1..Len(items)}
    \cup (IF Len(items) < MaxItems THEN {Append(items, c) : c \in catalog} ELSE {})

\* lines of the texts to diff: plain, indented, empty
DiffLines == {<<"a">>, <<" ", "b">>, <<>>}

\* lines of the blocks to dedent: indented by zero to two spaces, empty,
\* one space, two tabs
DedentLines ==
    {<<"a">>, <<" ", "b">>, <<" ", " ", "c">>, <<>>, <<" ">>, <<"\t", "\t">>}

\* the blocks of at most MaxLines lines
DedentBlocks == UNION {[1..n -> DedentLines] : n \in 0..MaxLines}

\* the texts of at most MaxLines lines
DiffTexts == {join(<<"\n">>, ls) : ls \in UNION {[1..n -> DiffLines] : n \in 0..MaxLines}}

\* values of the fields of the documents to canonicalize: lists in both
\* orders, dicts with their keys in both orders, nested up to three levels
CanonFieldValues ==
    LET x == JStr(<<"x">>)
        y == JStr(<<"y">>)
        a == <<"a">>
        b == <<"b">>
    IN  {x, JList(<<x, y>>), JList(<<y, x>>),
         JDict(<< <<a, x>>, <<b, JList(<<x, y>>)>> >>),
         JDict(<< <<b, JList(<<x, y>>)>>, <<a, x>> >>),
         JDict(<< <<a, x>>, <<b, JList(<<y, x>>)>> >>),
         JDict(<< <<b, JDict(<< <<a, y>> >>)>>, <<a, x>> >>),
         JDict(<< <<a, x>>, <<b, JDict(<< <<a, y>> >>)>> >>)}

\* documents to canonicalize: the marker field before or after the field
CanonItems ==
    {ItemWith(k_rule, <<>>, << <<s_deep, v>> >>) : v \in CanonFieldValues}
    \cup {JDict(<< <<s_deep, v>>, <<s_reference_comparison_key, JStr(k_rule)>> >>) :
              v \in CanonFieldValues}

\* the depth limits to canonicalize with
CanonDepths == {1, 2, 3, DefaultMaxDepth}

\* the flat documents holding the items of a sequence, cut into nf documents
RECURSIVE Splits(_, _)
Splits(items, nf) ==
    IF nf = 1 THEN {<<GoodDoc(JList(items))>>}
    ELSE UNION {{<<GoodDoc(JList(SubSeq(items, 1, c)))>> \o rest :
                    rest \in Splits(SubSeq(items, c + 1, Len(items)), nf - 1)} :
                c \in 0..Len(items)}

ItemSeqs(catalog) == UNION {[1..n -> catalog] : n \in 0..MaxItems}

SnapshotsOf(catalog) ==
    UNION {Splits(items, nf) : items \in ItemSeqs(catalog), nf \in 1..MaxFiles}

(***************************************************************************)
(* State                                                                   *)
(***************************************************************************)
VARIABLES
    files,            \* the documents of the snapshot being loaded
    pc,               \* position of the load: "start", "found", "closing", "closed", "raised"
    nodes,            \* the list find_nodes returned
    err,              \* the exception that ended the load, "" if none
    all_nodes,        \* create_secondary_nodes: the list under construction
    all_nodes_names,  \* create_secondary_nodes: names seen
    ni,               \* create_secondary_nodes: position of the outer loop
    ci                \* create_secondary_nodes: position of the inner loop

VARIABLES
    snapshot_a,       \* build_compare: the documents of snapshot A
    snapshot_b,       \* build_compare: the documents of snapshot B
    cpc,              \* position of build_compare
    cerr,             \* the exception that ended build_compare, "" if none
    a_nodes,          \* the nodes of A by name
    b_nodes,          \* the nodes of B by name
    all_names,        \* the sorted names of both
    pos,              \* position of the loop over all_names
    a_borders,        \* status by name, for the figure of A
    b_borders,        \* status by name, for the figure of B
    added_in_a,       \* names present only in A
    added_in_b,       \* names present only in B
    changed           \* names present in both but different

VARIABLES
    node_a,             \* the node of snapshot A to show
    node_b,             \* the node of snapshot B to show
    depth_limit,          \* the depth limit of _node_json_pretty
    a_text,             \* _two_column_diff: the left text
    b_text,             \* _two_column_diff: the right text
    dpc,                \* position: "nodes", "pretty", "texts", "runs", "done"
    a_lines,            \* the lines of a_text
    b_lines,            \* the lines of b_text
    opcodes,            \* sm.get_opcodes()
    run,                \* position of the loop over the opcodes
    left_col_children,  \* the cells of the left column
    right_col_children  \* the cells of the right column

VARIABLES
    cls_name,           \* classify_item_type: the name to classify
    cls_type,           \* the class it returned
    cls_pc              \* position: "idle", "call", "returned"

loadVars == <<files, pc, nodes, err, all_nodes, all_nodes_names, ni, ci>>
cmpVars == <<snapshot_a, snapshot_b, cpc, cerr, a_nodes, b_nodes, all_names, pos,
             a_borders, b_borders, added_in_a, added_in_b, changed>>
diffVars == <<node_a, node_b, depth_limit, a_text, b_text, dpc, a_lines, b_lines, opcodes,
              run, left_col_children, right_col_children>>
\* _dedent_block: the block passed, the block returned, and the position of
\* the call
VARIABLES ded_block, ded_out, ded_pc

clsVars == <<cls_name, cls_type, cls_pc>>
dedVars == <<ded_block, ded_out, ded_pc>>
vars == <<loadVars, cmpVars, diffVars, clsVars, dedVars>>

\* the empty dict
EmptyMap == [n \in {} |-> NoneNode]

LoadIdle ==
    /\ files = <<>>
    /\ pc = "idle"
    /\ nodes = <<>>
    /\ err = ""
    /\ all_nodes = <<>>
    /\ all_nodes_names = {}
    /\ ni = 1
    /\ ci = 1

CompareStart ==
    /\ cerr = ""
    /\ a_nodes = EmptyMap
    /\ b_nodes = EmptyMap
    /\ all_names = <<>>
    /\ pos = 1
    /\ a_borders = EmptyMap
    /\ b_borders = EmptyMap
    /\ added_in_a = <<>>
    /\ added_in_b = <<>>
    /\ changed = <<>>

CompareIdle ==
    /\ snapshot_a = <<>>
    /\ snapshot_b = <<>>
    /\ cpc = "idle"
    /\ CompareStart

DiffStart ==
    /\ a_lines = <<>>
    /\ b_lines = <<>>
    /\ opcodes = <<>>
    /\ run = 1
    /\ left_col_children = <<>>
    /\ right_col_children = <<>>

DedentIdle ==
    /\ ded_block = <<>>
    /\ ded_out = <<>>
    /\ ded_pc = "idle"

ClassifyIdle ==
    /\ cls_name = <<>>
    /\ cls_type = None
    /\ cls_pc = "idle"

DiffIdle ==
    /\ node_a = NoneNode
    /\ node_b = NoneNode
    /\ depth_limit = DefaultMaxDepth
    /\ a_text = <<>>
    /\ b_text = <<>>
    /\ dpc = "idle"
    /\ DiffStart

LoadInit(snapshots) ==
    /\ files \in snapshots
    /\ pc = "start"
    /\ nodes = <<>>
    /\ err = ""
    /\ all_nodes = <<>>
    /\ all_nodes_names = {}
    /\ ni = 1
    /\ ci = 1

(***************************************************************************)
(* Loading a snapshot for the graph (main.py 322-323, Graph.py 30-38):     *)
(* find_nodes, then create_secondary_nodes                                 *)
(***************************************************************************)
FindNodes ==
    /\ pc = "start"
    /\ LET r == find_nodes(files)
       IN  IF r.err # ""
           THEN pc' = "raised" /\ err' = r.err /\ nodes' = <<>>
           ELSE pc' = "found" /\ err' = "" /\ nodes' = r.nodes
    /\ UNCHANGED <<files, all_nodes, all_nodes_names, ni, ci>>
    /\ UNCHANGED <<cmpVars, diffVars, clsVars, dedVars>>

SecondaryState == [all_nodes |-> all_nodes, all_nodes_names |-> all_nodes_names,
                   ni |-> ni, ci |-> ci, err |-> err]

\* the state of the loops taken over without the move to the next node
SetSecondaryStateSameNode(st) ==
    /\ all_nodes' = st.all_nodes
    /\ all_nodes_names' = st.all_nodes_names
    /\ ni' = ni
    /\ ci' = st.ci
    /\ err' = st.err

SetSecondaryState(st) ==
    /\ all_nodes' = st.all_nodes
    /\ all_nodes_names' = st.all_nodes_names
    /\ ni' = st.ni
    /\ ci' = st.ci
    /\ err' = st.err

\* lines 129-134
SecondaryBegin ==
    /\ pc = "found"
    /\ SetSecondaryState(SecondaryStart(nodes))
    /\ pc' = "closing"
    /\ UNCHANGED <<files, nodes>>
    /\ UNCHANGED <<cmpVars, diffVars, clsVars, dedVars>>

\* one pass of the loops of lines 136-171
SecondaryLoop ==
    /\ pc = "closing"
    /\ ~SecondaryDone(SecondaryState)
    /\ SetSecondaryState(SecondaryStep(SecondaryState))
    /\ pc' = IF SecondaryStep(SecondaryState).err # "" THEN "raised" ELSE "closing"
    /\ UNCHANGED <<files, nodes>>
    /\ UNCHANGED <<cmpVars, diffVars, clsVars, dedVars>>

\* line 173
SecondaryReturn ==
    /\ pc = "closing"
    /\ SecondaryDone(SecondaryState)
    /\ pc' = "closed"
    /\ UNCHANGED <<files, nodes, err, all_nodes, all_nodes_names, ni, ci>>
    /\ UNCHANGED <<cmpVars, diffVars, clsVars, dedVars>>

NextLoad == FindNodes \/ SecondaryBegin \/ SecondaryLoop \/ SecondaryReturn

InitNodes == LoadInit(SnapshotsOf(RefCatalog)) /\ CompareIdle /\ DiffIdle /\ ClassifyIdle /\ DedentIdle
SpecNodes == InitNodes /\ [][NextLoad]_vars

InitContent == LoadInit(SnapshotsOf(ContentCatalog)) /\ CompareIdle /\ DiffIdle /\ ClassifyIdle /\ DedentIdle
SpecContent == InitContent /\ [][NextLoad]_vars

InitDocs ==
    /\ LoadInit(UNION {[1..n -> DocCatalog] : n \in 0..MaxFiles})
    /\ CompareIdle /\ DiffIdle /\ ClassifyIdle /\ DedentIdle
SpecDocs == InitDocs /\ [][NextLoad]_vars

\* snapshots for the closure: items that refer to themselves, to each other,
\* to keys no item carries, to a program key, and to a text without '['
ClosureCatalog ==
    {ItemWith(k, t, <<>>) : k \in {k_rule, k_topic},
                            t \in {<<>>, k_rule, k_program, k_nobracket,
                                   k_topic \o <<" ">> \o k_incentive}}

InitClosure == LoadInit(SnapshotsOf(ClosureCatalog)) /\ CompareIdle /\ DiffIdle /\ ClassifyIdle /\ DedentIdle
SpecClosure == InitClosure /\ [][NextLoad]_vars

\* a reference key written after an opening '<<' that is never closed
k_nested == LT2 \o <<"b", " ">> \o k_rule

\* snapshots for the reference scan: texts with no key, one key, the same key
\* twice, two keys, a key of no recognized class, a key after a stray '<<'
ScanCatalog ==
    {ItemWith(k, t, <<>>) : k \in {k_rule, k_topic},
                            t \in {<<>>, k_rule, k_rule \o <<" ">> \o k_rule,
                                   k_topic \o <<" ">> \o k_incentive, k_unknown,
                                   k_nested}}

\* a call of find_nodes or create_secondary_nodes is under way: the states in
\* which a step of NextLoad can be taken
LoadRunning == pc \in {"start", "found", "closing"}

\* the closure under the scheduling of a running call, which takes the step
\* it can take: weak fairness of NextLoad, WF_vars(NextLoad), written out
\* with LoadRunning for the enabling condition of NextLoad
SpecClosureFair ==
    InitClosure /\ [][NextLoad]_vars /\ ([]<>~LoadRunning \/ []<><<NextLoad>>_vars)

InitScan == LoadInit(SnapshotsOf(ScanCatalog)) /\ CompareIdle /\ DiffIdle /\ ClassifyIdle /\ DedentIdle
SpecScan == InitScan /\ [][NextLoad]_vars

\* keys whose name holds a ':', blanks, or a '[' of its own
k_colon == RefKey(s_Rule, <<"a", ":", "b">>, <<"p">>)
k_spaced == RefKey(s_Rule, <<" ", "a", " ">>, <<"p">>)
k_bracket == RefKey(s_Rule, <<"a", "[", "1", "]">>, <<"p">>)

\* snapshots for the decomposition of a key into display name and program
PartsCatalog ==
    {ItemWith(k, t, <<>>) : k \in {k_rule, k_colon, k_spaced, k_bracket},
                            t \in {<<>>, k_colon, k_incentive}}

InitParts == LoadInit(SnapshotsOf(PartsCatalog)) /\ CompareIdle /\ DiffIdle /\ ClassifyIdle /\ DedentIdle
SpecParts == InitParts /\ [][NextLoad]_vars

InitKeys == LoadInit(SnapshotsOf(KeyCatalog)) /\ CompareIdle /\ DiffIdle /\ ClassifyIdle /\ DedentIdle
SpecKeys == InitKeys /\ [][NextLoad]_vars

\* the items of the flat documents of a snapshot, in extraction order
ItemsOf(docs) == ConcatAll([i \in 1..Len(docs) |-> docs[i].val.el])

(***************************************************************************)
(* Compare.py: build_compare                                               *)
(***************************************************************************)
\* lines 194-195: the two calls of _load_nodes
LoadNodes ==
    /\ cpc = "start"
    /\ \E a \in {_load_nodes(snapshot_a)}, b \in {_load_nodes(snapshot_b)} :
           IF a.err # ""
           THEN cpc' = "raised" /\ cerr' = a.err /\ UNCHANGED <<a_nodes, b_nodes>>
           ELSE IF b.err # ""
           THEN cpc' = "raised" /\ cerr' = b.err /\ a_nodes' = a.by_name
                /\ UNCHANGED b_nodes
           ELSE cpc' = "loaded" /\ cerr' = "" /\ a_nodes' = a.by_name
                /\ b_nodes' = b.by_name
    /\ UNCHANGED <<snapshot_a, snapshot_b, all_names, pos, a_borders, b_borders,
                   added_in_a, added_in_b, changed>>
    /\ UNCHANGED <<loadVars, diffVars, clsVars, dedVars>>

\* lines 197-207
CompareBegin ==
    /\ cpc = "loaded"
    /\ all_names' = sorted(DOMAIN a_nodes \cup DOMAIN b_nodes)
    /\ pos' = 1
    /\ a_borders' = EmptyMap
    /\ b_borders' = EmptyMap
    /\ added_in_a' = <<>>
    /\ added_in_b' = <<>>
    /\ changed' = <<>>
    /\ cpc' = "comparing"
    /\ UNCHANGED <<snapshot_a, snapshot_b, cerr, a_nodes, b_nodes>>
    /\ UNCHANGED <<loadVars, diffVars, clsVars, dedVars>>

\* one pass of the loop of lines 209-231
CompareLoop ==
    /\ cpc = "comparing"
    /\ pos <= Len(all_names)
    /\ LET name == all_names[pos]
           a_node == MapGet(a_nodes, name)
           b_node == MapGet(b_nodes, name)
           status == _classify_diff(a_node, b_node)
           only_a == status = "distinct" /\ ~IsNone(a_node) /\ IsNone(b_node)
           only_b == status = "distinct" /\ ~only_a /\ ~IsNone(b_node) /\ IsNone(a_node)
       IN  /\ a_borders' = IF only_b THEN a_borders ELSE (name :> status) @@ a_borders
           /\ b_borders' = IF only_a THEN b_borders ELSE (name :> status) @@ b_borders
           /\ added_in_a' = IF only_a THEN Append(added_in_a, name) ELSE added_in_a
           /\ added_in_b' = IF only_b THEN Append(added_in_b, name) ELSE added_in_b
           /\ changed' = IF status = "changed" THEN Append(changed, name) ELSE changed
    /\ pos' = pos + 1
    /\ UNCHANGED <<snapshot_a, snapshot_b, cpc, cerr, a_nodes, b_nodes, all_names>>
    /\ UNCHANGED <<loadVars, diffVars, clsVars, dedVars>>

\* Graph.py line 9: the parameters of create_network_graph
create_network_graph_params ==
    {"snapshot_name", "include_classes", "include_programs", "name_contains"}

\* a call with the given keyword arguments binds (otherwise TypeError)
CallBinds(params, keywords) == keywords \subseteq params

\* lines 234-235, reached when the loop is over: the calls of
\* Graph.create_network_graph with the border maps
CreateFigures ==
    /\ cpc = "comparing"
    /\ pos > Len(all_names)
    /\ IF CallBinds(create_network_graph_params, {"border_override", "include_secondary"})
       THEN cpc' = "figures" /\ cerr' = ""
       ELSE cpc' = "raised" /\ cerr' = "TypeError"
    /\ UNCHANGED <<snapshot_a, snapshot_b, a_nodes, b_nodes, all_names, pos,
                   a_borders, b_borders, added_in_a, added_in_b, changed>>
    /\ UNCHANGED <<loadVars, diffVars, clsVars, dedVars>>

NextCompare == LoadNodes \/ CompareBegin \/ CompareLoop \/ CreateFigures

InitCompare ==
    /\ LoadIdle
    /\ \E items \in ItemSeqs(CompareCatalog) :
          \E edited \in EditsOf(items, CompareCatalog) :
             /\ snapshot_a = <<GoodDoc(JList(items))>>
             /\ snapshot_b = <<GoodDoc(JList(edited))>>
    /\ cpc = "start"
    /\ CompareStart
    /\ DiffIdle
    /\ ClassifyIdle /\ DedentIdle

SpecCompare == InitCompare /\ [][NextCompare]_vars

\* snapshot A of several documents whose items collide in their keys
InitCollide ==
    /\ LoadIdle
    /\ snapshot_a \in SnapshotsOf(CollideCatalog)
    /\ snapshot_b \in {<<GoodDoc(JList(<<c>>))>> : c \in CollideCatalog}
    /\ cpc = "start"
    /\ CompareStart
    /\ DiffIdle
    /\ ClassifyIdle /\ DedentIdle

SpecCollide == InitCollide /\ [][NextCompare]_vars

(***************************************************************************)
(* Nodes.py: a call of classify_item_type                                  *)
(***************************************************************************)
Classify ==
    /\ cls_pc = "call"
    /\ cls_type' = classify_item_type(cls_name)
    /\ cls_pc' = "returned"
    /\ UNCHANGED cls_name
    /\ UNCHANGED <<loadVars, cmpVars, diffVars, dedVars>>

NextClassify == Classify

InitClassify ==
    /\ LoadIdle
    /\ CompareIdle
    /\ DiffIdle
    /\ cls_name \in ClassifyNames
    /\ cls_type = None
    /\ cls_pc = "call"
    /\ DedentIdle

SpecClassify == InitClassify /\ [][NextClassify]_vars

(***************************************************************************)
(* Compare.py: the detail of a changed name (lines 257-261):               *)
(* _node_json_pretty of the two nodes, then _two_column_diff of the texts  *)
(***************************************************************************)
\* lines 257-258
PrettyTexts ==
    /\ dpc = "nodes"
    /\ a_text' = _node_json_pretty(node_a, depth_limit)
    /\ b_text' = _node_json_pretty(node_b, depth_limit)
    /\ dpc' = "pretty"
    /\ UNCHANGED <<node_a, node_b, depth_limit, a_lines, b_lines, opcodes, run,
                   left_col_children, right_col_children>>
    /\ UNCHANGED <<loadVars, cmpVars, clsVars, dedVars>>

\* _two_column_diff, lines 108-113
DiffBegin ==
    /\ dpc = "texts"
    /\ a_lines' = splitlines(a_text)
    /\ b_lines' = splitlines(b_text)
    /\ opcodes' = get_opcodes(splitlines(a_text), splitlines(b_text))
    /\ run' = 1
    /\ left_col_children' = <<>>
    /\ right_col_children' = <<>>
    /\ dpc' = "runs"
    /\ UNCHANGED <<node_a, node_b, depth_limit, a_text, b_text>>
    /\ UNCHANGED <<loadVars, cmpVars, clsVars, dedVars>>

\* _two_column_diff, one pass of the loop of lines 128-160
DiffRun ==
    /\ dpc = "runs"
    /\ run <= Len(opcodes)
    /\ LET op == opcodes[run]
           cells == RunCells(op.tag, Slice(a_lines, op.i1, op.i2), Slice(b_lines, op.j1, op.j2))
       IN  /\ left_col_children' = left_col_children \o cells.left
           /\ right_col_children' = right_col_children \o cells.right
    /\ run' = run + 1
    /\ UNCHANGED <<node_a, node_b, depth_limit, a_text, b_text, dpc, a_lines, b_lines, opcodes>>
    /\ UNCHANGED <<loadVars, cmpVars, clsVars, dedVars>>

\* _two_column_diff, lines 162-183: the container of the two columns
DiffReturn ==
    /\ dpc = "runs"
    /\ run > Len(opcodes)
    /\ dpc' = "done"
    /\ UNCHANGED <<node_a, node_b, depth_limit, a_text, b_text, a_lines, b_lines, opcodes, run,
                   left_col_children, right_col_children>>
    /\ UNCHANGED <<loadVars, cmpVars, clsVars, dedVars>>

\* a call of _dedent_block
Dedent ==
    /\ ded_pc = "call"
    /\ ded_out' = _dedent_block(ded_block)
    /\ ded_pc' = "returned"
    /\ UNCHANGED ded_block
    /\ UNCHANGED <<loadVars, cmpVars, diffVars, clsVars>>

NextDedent == Dedent

InitDedent ==
    /\ LoadIdle
    /\ CompareIdle
    /\ DiffIdle
    /\ ClassifyIdle
    /\ ded_block \in DedentBlocks
    /\ ded_out = <<>>
    /\ ded_pc = "call"

SpecDedent == InitDedent /\ [][NextDedent]_vars

NextCanon == PrettyTexts
NextDiff == DiffBegin \/ DiffRun \/ DiffReturn

\* the node find_nodes emits for an item
NodeOf(item) == ProcessItem(item).node

InitCanon ==
    /\ LoadIdle
    /\ CompareIdle
    /\ node_a \in {NodeOf(item) : item \in CanonItems}
    /\ node_b \in {NodeOf(item) : item \in CanonItems}
    /\ depth_limit \in CanonDepths
    /\ a_text = <<>>
    /\ b_text = <<>>
    /\ dpc = "nodes"
    /\ DiffStart
    /\ ClassifyIdle /\ DedentIdle

SpecCanon == InitCanon /\ [][NextCanon]_vars

InitDiff ==
    /\ LoadIdle
    /\ CompareIdle
    /\ node_a = NoneNode
    /\ node_b = NoneNode
    /\ depth_limit = DefaultMaxDepth
    /\ a_text \in DiffTexts
    /\ b_text \in DiffTexts
    /\ dpc = "texts"
    /\ DiffStart
    /\ ClassifyIdle /\ DedentIdle

SpecDiff == InitDiff /\ [][NextDiff]_vars

(***************************************************************************)
(* Graph closure properties                                                *)
(***************************************************************************)
\* C1: closure completeness - once create_secondary_nodes has returned, every
\* key in the connections of a node of the result is the name of a node of the
\* result
ClosureComplete ==
    pc = "closed" =>
        \A i \in 1..Len(all_nodes) :
            \A j \in 1..Len(all_nodes[i].connections) :
                all_nodes[i].connections[j] \in NodeNames(all_nodes)

(***************************************************************************)
(* Extraction properties                                                   *)
(***************************************************************************)
\* C10: missing per-class fields never fail extraction - when every item of
\* the snapshot has a well-formed key of a recognized class and only lacks
\* class-specific fields, find_nodes returns and emits one node per item
MissingFieldsNeverFail ==
    (pc # "start" /\ \A i \in 1..Len(ItemsOf(files)) : ItemsOf(files)[i] \in ContentCatalog)
        => pc # "raised" /\ Len(nodes) = Len(ItemsOf(files))

(***************************************************************************)
(* Diff properties                                                         *)
(***************************************************************************)
\* the loop of build_compare over all_names is over
Compared == cpc = "comparing" /\ pos > Len(all_names)

\* the canonical text of a node, as lines 257-258 compute it
CanonicalText(node) == _node_json_pretty(node, DefaultMaxDepth)

InBoth == DOMAIN a_nodes \cap DOMAIN b_nodes

\* the status the loop gave a name, None when it gave none
StatusOf(name) ==
    IF name \in DOMAIN a_borders THEN a_borders[name]
    ELSE IF name \in DOMAIN b_borders THEN b_borders[name]
    ELSE None

ListSet(l) == {l[i] : i \in 1..Len(l)}

\* the closed node set of a snapshot: find_nodes, then create_secondary_nodes
ClosedNodes(docs) == create_secondary_nodes(find_nodes(docs).nodes).nodes
ClosedNames(docs) == NodeNames(ClosedNodes(docs))
SecondaryNames(docs) ==
    {ClosedNodes(docs)[i].name :
        i \in {k \in 1..Len(ClosedNodes(docs)) : ClosedNodes(docs)[k].order = "secondary"}}

\* C2: diff on content change - a name present in both snapshots whose two
\* canonical texts are not equal has status 'changed' and is in the changed list
DiffOnContentChange ==
    Compared =>
        \A n \in InBoth :
            CanonicalText(a_nodes[n]) # CanonicalText(b_nodes[n])
                => StatusOf(n) = "changed" /\ n \in ListSet(changed)

\* C3: diff on primary/secondary parity - a name that is a primary node in one
\* snapshot and only a secondary node in the other is classified 'changed'
DiffOnParity ==
    Compared =>
        \A n \in DOMAIN a_nodes \cup DOMAIN b_nodes :
            (\/ n \in DOMAIN a_nodes /\ n \in SecondaryNames(snapshot_b)
             \/ n \in DOMAIN b_nodes /\ n \in SecondaryNames(snapshot_a))
                => StatusOf(n) = "changed" /\ n \in ListSet(changed)

\* C4: the diff works on closed node sets - every name of the closed node set
\* of A or of B has a status, and a name that is a secondary node in both
\* snapshots has status 'same'
DiffOnClosedSets ==
    Compared =>
        \A n \in ClosedNames(snapshot_a) \cup ClosedNames(snapshot_b) :
            /\ StatusOf(n) # None
            /\ n \in SecondaryNames(snapshot_a) \cap SecondaryNames(snapshot_b)
                   => StatusOf(n) = "same"

\* C5: diff directionality - added_in_a and added_in_b are disjoint,
\* added_in_a holds exactly the names present only in A, added_in_b exactly the
\* names present only in B, and together they are the symmetric difference of
\* the two name sets
DiffDirectional ==
    Compared =>
        /\ ListSet(added_in_a) \cap ListSet(added_in_b) = {}
        /\ ListSet(added_in_a) = DOMAIN a_nodes \ DOMAIN b_nodes
        /\ ListSet(added_in_b) = DOMAIN b_nodes \ DOMAIN a_nodes
        /\ ListSet(added_in_a) \cup ListSet(added_in_b)
               = (DOMAIN a_nodes \cup DOMAIN b_nodes) \ (DOMAIN a_nodes \cap DOMAIN b_nodes)

\* both sides have a name of their own
DiffDirectionalWitness ==
    Compared /\ added_in_a # <<>> /\ added_in_b # <<>>

\* v and w are equal in everything nested less than max_depth levels below
\* the root (depth is the level of v and w)
RECURSIVE SameAboveDepth(_, _, _, _)
SameAboveDepth(v, w, depth, max_depth) ==
    \/ depth >= max_depth
    \/ /\ v.t = w.t
       /\ v.s = w.s
       /\ Len(v.el) = Len(w.el)
       /\ \A i \in 1..Len(v.el) : SameAboveDepth(v.el[i], w.el[i], depth + 1, max_depth)
       /\ Keys(v) = Keys(w)
       /\ \A k \in Keys(v) :
              SameAboveDepth(GetItem(v, k), GetItem(w, k), depth + 1, max_depth)

\* the raw documents of the two nodes differ, but only at or beyond the depth limit
DifferOnlyDeep(a_node, b_node) ==
    /\ a_node.raw # b_node.raw
    /\ SameAboveDepth(a_node.raw, b_node.raw, 0, DefaultMaxDepth)

RECURSIVE SameUpToKeyOrder(_, _)
SameUpToKeyOrder(v, w) ==
    /\ v.t = w.t
    /\ v.s = w.s
    /\ Len(v.el) = Len(w.el)
    /\ \A i \in 1..Len(v.el) : SameUpToKeyOrder(v.el[i], w.el[i])
    /\ Keys(v) = Keys(w)
    /\ \A k \in Keys(v) : SameUpToKeyOrder(GetItem(v, k), GetItem(w, k))

\* the deepest level at which v holds a value (v itself is at level 0)
RECURSIVE MaxLevel(_)
MaxLevel(v) ==
    LET children == {v.el[i] : i \in 1..Len(v.el)} \cup {v.kv[i][2] : i \in 1..Len(v.kv)}
        levels == {MaxLevel(c) : c \in children}
    IN  IF children = {} THEN 0 ELSE 1 + CHOOSE m \in levels : \A x \in levels : x <= m

\* C7: canonicalization determinism - two raw documents that are the same
\* value with their keys in different orders get the same text from
\* _node_json_pretty; array order is kept: documents that are not the same up
\* to key order (lists with their elements in another order) get different
\* texts when nothing of them is cut at the depth limit
CanonDeterministic ==
    dpc = "pretty" =>
        /\ SameUpToKeyOrder(node_a.raw, node_b.raw) => a_text = b_text
        /\ (/\ ~SameUpToKeyOrder(node_a.raw, node_b.raw)
            /\ MaxLevel(node_a.raw) < depth_limit
            /\ MaxLevel(node_b.raw) < depth_limit) => a_text # b_text

\* two documents that differ in key order only, at the top and below, were
\* canonicalized
CanonDeterministicWitness ==
    /\ dpc = "pretty"
    /\ SameUpToKeyOrder(node_a.raw, node_b.raw)
    /\ KeysAsInserted(node_a.raw) # KeysAsInserted(node_b.raw)
    /\ MaxLevel(node_a.raw) < depth_limit
    /\ a_text = b_text

(***************************************************************************)
(* Aligned differ properties                                               *)
(***************************************************************************)
\* C8: aligned differ row invariant - the two columns hold the same number
\* of cells after every opcode run, and so when all runs are processed
RowsAligned ==
    dpc \in {"runs", "done"} => Len(left_col_children) = Len(right_col_children)

\* a replace run whose two slices differ in length was processed
RowsAlignedWitness ==
    /\ dpc = "done"
    /\ \E r \in 1..Len(opcodes) :
           opcodes[r].tag = "replace"
           /\ opcodes[r].i2 - opcodes[r].i1 # opcodes[r].j2 - opcodes[r].j1

\* the number of lines in the equal runs of the opcode stream
RECURSIVE EqualLines(_)
EqualLines(ops) ==
    IF ops = <<>> THEN 0
    ELSE (IF Head(ops).tag = "equal" THEN Head(ops).i2 - Head(ops).i1 ELSE 0)
         + EqualLines(Tail(ops))

\* the length of a longest common subsequence of a[1..i] and b[1..j]
RECURSIVE LCSLength(_, _, _, _)
LCSLength(a, b, i, j) ==
    IF i = 0 \/ j = 0 THEN 0
    ELSE IF a[i] = b[j] THEN 1 + LCSLength(a, b, i - 1, j - 1)
    ELSE Max(LCSLength(a, b, i - 1, j), LCSLength(a, b, i, j - 1))

\* C9 as claimed: the opcode stream is a minimal edit script - its equal runs
\* hold as many lines as a longest common subsequence of the two line sequences
MinimalEditScript ==
    dpc \in {"runs", "done"} =>
        EqualLines(opcodes) = LCSLength(a_lines, b_lines, Len(a_lines), Len(b_lines))

\* the runs tile both line sequences in order, an equal run pairs equal
\* lines, and the runs are tagged by the sides they take lines from
RunsTile(ops, a, b) ==
    /\ ops = <<>> => a = <<>> /\ b = <<>>
    /\ ops # <<>> => /\ ops[1].i1 = 0 /\ ops[1].j1 = 0
                     /\ ops[Len(ops)].i2 = Len(a) /\ ops[Len(ops)].j2 = Len(b)
    /\ \A r \in 1..(Len(ops) - 1) : ops[r + 1].i1 = ops[r].i2 /\ ops[r + 1].j1 = ops[r].j2
    /\ \A r \in 1..Len(ops) :
           LET op == ops[r]
           IN  /\ op.i1 <= op.i2 /\ op.j1 <= op.j2
               /\ op.tag = "equal" =>
                      op.i1 < op.i2 /\ Slice(a, op.i1, op.i2) = Slice(b, op.j1, op.j2)
               /\ op.tag \in {"equal", "replace"} <=> (op.i1 < op.i2 /\ op.j1 < op.j2)
               /\ op.tag = "delete" <=> (op.i1 < op.i2 /\ op.j1 = op.j2)
               /\ op.tag = "insert" <=> (op.i1 = op.i2 /\ op.j1 < op.j2)

\* C9 amended: the opcode stream is a valid edit script that need not be
\* minimal - its runs tile both line sequences in order, every equal run
\* pairs identical lines, and the equal runs hold at most as many lines as a
\* longest common subsequence
ValidEditScript ==
    dpc \in {"runs", "done"} =>
        /\ RunsTile(opcodes, a_lines, b_lines)
        /\ EqualLines(opcodes) <= LCSLength(a_lines, b_lines, Len(a_lines), Len(b_lines))

\* a diff whose equal runs hold fewer lines than a longest common subsequence
EditScriptWitness ==
    /\ dpc = "done"
    /\ EqualLines(opcodes) < LCSLength(a_lines, b_lines, Len(a_lines), Len(b_lines))

(***************************************************************************)
(* Extraction and closure properties                                       *)
(***************************************************************************)
\* the value of the marker field of an item
KeyOf(item) == dict_get(item, s_reference_comparison_key).s

\* the items of a list whose marker value is not one to skip
KeptItems(items) == SelectSeq(items, LAMBDA item : KeyOf(item) \notin SkippedKeys)

\* C11: unrecognized or malformed keys are not errors in extraction - when the
\* snapshot holds items whose marker value has an unrecognized class or is
\* outside the bracket grammar, find_nodes raises nothing, emits no node for
\* them and emits the nodes of all other items
BadKeysSkipped ==
    pc # "start" =>
        /\ pc # "raised"
        /\ nodes = [i \in 1..Len(KeptItems(ItemsOf(files))) |->
                       NodeOf(KeptItems(ItemsOf(files))[i])]

\* key follows the bracket grammar <<Class:Name[ClientProgram:Program]>>
GrammarKey(key) ==
    /\ startswith(key, LT2)
    /\ endswith(key, <<"]">> \o GT2)
    /\ FindChar(key, ":") > 0
    /\ FindSub(key, s_ClientProgramOpen) > FindChar(key, ":")

\* create_secondary_nodes was left by an exception (find_nodes had returned
\* nodes to close)
ClosureRaised == pc = "raised" /\ nodes # <<>>

\* C12: malformed keys are skipped by closure - create_secondary_nodes raises
\* nothing, and it synthesizes a node only for a connection key that follows
\* the bracket grammar <<Class:Name[ClientProgram:Program]>>
MalformedKeysSkipped ==
    /\ ~ClosureRaised
    /\ \A i \in 1..Len(all_nodes) :
           all_nodes[i].order = "secondary" => GrammarKey(all_nodes[i].name)

\* C13: node name uniqueness - in the node list of a loaded snapshot (find_nodes
\* followed by create_secondary_nodes) no two nodes have the same name
NamesUnique ==
    pc = "closed" =>
        \A i, j \in 1..Len(all_nodes) : i # j => all_nodes[i].name # all_nodes[j].name

\* the two calls of _load_nodes have returned
Loaded == cpc \in {"loaded", "comparing"} \/ (cpc = "raised" /\ cerr = "TypeError")

\* the last item of the list that carries the reference key n
LastItemOf(items, n) ==
    items[CHOOSE i \in 1..Len(items) :
              KeyOf(items[i]) = n /\ \A k \in (i + 1)..Len(items) : KeyOf(items[k]) # n]

\* the reference keys of the items of a list
KeysOf(items) == {KeyOf(items[i]) : i \in 1..Len(items)}

\* C14: name collision resolution - the mapping of _load_nodes holds, for
\* every reference key of the snapshot, the node of the item extracted last
\* with that key (in file order, then item order), all its fields and none of
\* an earlier item
LastExtractedWins ==
    Loaded =>
        /\ DOMAIN a_nodes = KeysOf(ItemsOf(snapshot_a))
        /\ \A n \in DOMAIN a_nodes : a_nodes[n] = NodeOf(LastItemOf(ItemsOf(snapshot_a), n))

\* two documents of snapshot A hold items of the same key and other fields,
\* and the mapping was built
LastExtractedWinsWitness ==
    /\ Loaded
    /\ Len(snapshot_a) = 2
    /\ \E i \in 1..Len(snapshot_a[1].val.el), j \in 1..Len(snapshot_a[2].val.el) :
           /\ KeyOf(snapshot_a[1].val.el[i]) = KeyOf(snapshot_a[2].val.el[j])
           /\ Len(snapshot_a[1].val.el[i].kv) > Len(snapshot_a[2].val.el[j].kv)
           /\ a_nodes[KeyOf(snapshot_a[2].val.el[j])].raw = snapshot_a[2].val.el[j]

(***************************************************************************)
(* Classification properties                                               *)
(***************************************************************************)
\* the class-prefix of a key: the text between the leading '<<' and the first
\* ':' (the empty text when the key has none)
ClassPrefix(key) ==
    IF startswith(key, LT2) /\ FindChar(key, ":") > 2
    THEN SubSeq(key, 3, FindChar(key, ":") - 1)
    ELSE <<>>

\* the name of a key: the text between the first ':' and the first '['
KeyName(key) == split(SliceFrom(key, FindChar(key, ":")), "[")[1]

\* the class a class-prefix stands for, None for any other text
ClassOfPrefix(prefix) ==
    CASE prefix = s_MessageConfig -> "MessageConfig"
      [] prefix = s_ClientTopic -> "ClientTopic"
      [] prefix = s_StandaloneFormula -> "StandaloneFormula"
      [] prefix = s_ClientPageLayout -> "ClientPageLayout"
      [] prefix = s_MessageCategory -> "MessageCategory"
      [] prefix = s_CustomFieldDef -> "CustomFieldDef"
      [] prefix = s_Incentive -> "Incentive"
      [] prefix = s_Rule -> "Rule"
      [] prefix = s_ClientRaffle -> "ClientRaffle"
      [] prefix = s_ClientReward -> "ClientReward"
      [] prefix = s_ClientProgram -> "ClientProgram"
      [] prefix = s_ClientTaskHandlerDefinition -> "ClientTaskHandlerDefinition"
      [] prefix = s_RuleSet -> "RuleSet"
      [] OTHER -> None

\* C15: classification is by class-prefix - classify_item_type returns a class
\* only for a key whose class-prefix is one of the 13 class names, and then
\* that class; it returns None for every other prefix and for a RuleSet key
\* whose name contains 'None'
ClassifiedByPrefix ==
    cls_pc = "returned" =>
        /\ cls_type # None => cls_type = ClassOfPrefix(ClassPrefix(cls_name))
        /\ ClassOfPrefix(ClassPrefix(cls_name)) = None => cls_type = None
        /\ (ClassPrefix(cls_name) = s_RuleSet /\ StrIn(s_None, KeyName(cls_name)))
               => cls_type = None

(***************************************************************************)
(* Node list properties                                                    *)
(***************************************************************************)
\* C16: no self-loops - for every node emitted by find_nodes and every node of
\* the list of create_secondary_nodes, the node's name is not one of its
\* connections
NoSelfLoops ==
    /\ \A i \in 1..Len(nodes) : ~InList(nodes[i].name, nodes[i].connections)
    /\ \A i \in 1..Len(all_nodes) : ~InList(all_nodes[i].name, all_nodes[i].connections)

\* a closed list with a node whose document names the node itself in its text
\* and another key
NoSelfLoopsWitness ==
    /\ pc = "closed"
    /\ \E i \in 1..Len(all_nodes) :
           /\ all_nodes[i].order = "primary"
           /\ StrIn(all_nodes[i].name, dict_get(all_nodes[i].raw, s_text).s)
           /\ all_nodes[i].connections # <<>>

\* the nodes of the list with order 'secondary'
Secondaries(ns) == SelectSeq(ns, LAMBDA n : n.order = "secondary")

\* C17: secondary minimality - in the list of create_secondary_nodes no two
\* secondary nodes share a name, and the name of every secondary node is a
\* connection of some primary input node and the name of no primary input node
SecondaryMinimal ==
    pc \in {"closing", "closed"} =>
        LET sec == Secondaries(all_nodes)
        IN  /\ \A i, j \in 1..Len(sec) : i # j => sec[i].name # sec[j].name
            /\ \A i \in 1..Len(sec) :
                   /\ \E k \in 1..Len(nodes) : InList(sec[i].name, nodes[k].connections)
                   /\ sec[i].name \notin NodeNames(nodes)

\* two primary nodes refer to the same missing key and the list is closed
SecondaryMinimalWitness ==
    /\ pc = "closed"
    /\ \E i, j \in 1..Len(nodes) :
           /\ i # j
           /\ \E c \in NodeNames(Secondaries(all_nodes)) :
                  InList(c, nodes[i].connections) /\ InList(c, nodes[j].connections)

\* a document that cannot be read: not parseable, or neither a list nor a
\* dict with a dict of buckets under '_children'
Unreadable(doc) ==
    \/ doc.parse = "bad"
    \/ /\ doc.val.t # "list"
       /\ ~(doc.val.t = "dict" /\ HasKey(doc.val, s_children)
            /\ GetItem(doc.val, s_children).t = "dict")

\* C18: an unreadable document is fatal - when a document of the snapshot
\* cannot be read, find_nodes raises and no node list is returned, the nodes
\* of earlier documents included
UnreadableIsFatal ==
    (pc # "start" /\ \E i \in 1..Len(files) : Unreadable(files[i]))
        => pc = "raised" /\ err # "" /\ nodes = <<>> /\ all_nodes = <<>>

\* find_nodes raised on the second document after it had extracted a node
\* from the first
UnreadableIsFatalWitness ==
    /\ pc = "raised"
    /\ Len(files) = 2
    /\ ~Unreadable(files[1])
    /\ find_nodes(<<files[1]>>).nodes # <<>>
    /\ Unreadable(files[2])

\* C19: secondary node shape - every node synthesized by
\* create_secondary_nodes has order 'secondary', content None, no connections
\* and no raw document
SecondaryShape ==
    \A i \in (Len(nodes) + 1)..Len(all_nodes) :
        /\ all_nodes[i].order = "secondary"
        /\ all_nodes[i].content = ContentNone
        /\ all_nodes[i].connections = <<>>
        /\ "raw" \notin DOMAIN all_nodes[i]

\* a closed list with synthesized nodes, a program node among them
SecondaryShapeWitness ==
    /\ pc = "closed"
    /\ \E i, j \in (Len(nodes) + 1)..Len(all_nodes) :
           /\ all_nodes[i].class = "ClientProgram"
           /\ all_nodes[j].class # "ClientProgram"

(***************************************************************************)
(* build_compare properties                                                *)
(***************************************************************************)
\* C20: build_compare returns - with two snapshots that load, the calls of
\* Graph.create_network_graph bind their arguments and build_compare is not
\* left by an exception
BuildCompareReturns ==
    cpc = "raised" =>
        _load_nodes(snapshot_a).err # "" \/ _load_nodes(snapshot_b).err # ""

(***************************************************************************)
(* Connections of an extracted node                                        *)
(***************************************************************************)
\* x has the form of the scanned pattern: '<<', one or more characters other
\* than '>', '>>'
MatchesReference(x) ==
    /\ Len(x) >= 5
    /\ startswith(x, LT2)
    /\ endswith(x, GT2)
    /\ \A k \in 3..(Len(x) - 2) : x[k] # ">"

\* the substrings of text that match the pattern and classify as recognized,
\* other than own
ReferenceSubstrings(text, own) ==
    {x \in {SubSeq(text, b, e) : b \in {k \in 1..Len(text) : text[k] = "<"},
                                 e \in {k \in 1..Len(text) : text[k] = ">"}} :
        /\ MatchesReference(x)
        /\ classify_item_type(x) # None
        /\ x # own}

\* the first position of text at which x occurs
FirstOccurrence(text, x) ==
    CHOOSE b \in 1..Len(text) :
        /\ b + Len(x) - 1 <= Len(text)
        /\ SubSeq(text, b, b + Len(x) - 1) = x
        /\ \A k \in 1..(b - 1) : SubSeq(text, k, k + Len(x) - 1) # x

\* C21: connections extraction - the connections of every node of find_nodes
\* are exactly the substrings of the item's text that match the reference
\* pattern and classify as recognized, without the item's own key, each
\* listed once, in order of first occurrence in the text
ConnectionsExact ==
    \A i \in 1..Len(nodes) :
        LET text == Repr(nodes[i].raw)
            c == nodes[i].connections
        IN  /\ {c[k] : k \in 1..Len(c)} = ReferenceSubstrings(text, nodes[i].name)
            /\ \A k, l \in 1..Len(c) :
                   k < l => FirstOccurrence(text, c[k]) < FirstOccurrence(text, c[l])

(***************************************************************************)
(* Order of the closed list                                                *)
(***************************************************************************)
\* the connections in the order the loops of lines 136-137 meet them over
\* the primary nodes
MetOrder(ns) == ConcatAll([k \in 1..Len(ns) |-> ns[k].connections])

\* the first position of x in seq
FirstMet(seq, x) ==
    CHOOSE i \in 1..Len(seq) : seq[i] = x /\ \A k \in 1..(i - 1) : seq[k] # x

\* C22: closure output ordering - the list of create_secondary_nodes starts
\* with the primary nodes in their input order, and the secondary nodes
\* follow in the order in which their keys are first met when the primary
\* nodes are scanned in input order and the connections of each in order
ClosureOrdered ==
    pc \in {"closing", "closed"} =>
        /\ Len(all_nodes) >= Len(nodes)
        /\ SubSeq(all_nodes, 1, Len(nodes)) = nodes
        /\ \A i, j \in (Len(nodes) + 1)..Len(all_nodes) :
               /\ InList(all_nodes[i].name, MetOrder(nodes))
               /\ i < j => FirstMet(MetOrder(nodes), all_nodes[i].name)
                               < FirstMet(MetOrder(nodes), all_nodes[j].name)

\* a closed list of two different primary nodes and three secondary nodes
ClosureOrderedWitness ==
    /\ pc = "closed"
    /\ Len(nodes) = 2
    /\ nodes[1] # nodes[2]
    /\ Len(all_nodes) = 5

(***************************************************************************)
(* Decomposition of a key                                                  *)
(***************************************************************************)
\* the text after the first ':' of key up to the first '[', trimmed
NameOfKey(key) == strip(SubSeq(key, FindChar(key, ":") + 1, FindChar(key, "[") - 1))

\* C23: display-name decomposition - for every key of a non-program class
\* the display_name of its node, primary or synthesized, is the text after
\* the first ':' of the key up to (not including) the first '[', with
\* leading and trailing whitespace trimmed
DisplayNameDecomposed ==
    /\ \A i \in 1..Len(nodes) :
           nodes[i].class # "ClientProgram" =>
               nodes[i].display_name = NameOfKey(nodes[i].name)
    /\ \A i \in 1..Len(all_nodes) :
           all_nodes[i].class # "ClientProgram" =>
               all_nodes[i].display_name = NameOfKey(all_nodes[i].name)

\* the text between the first '[ClientProgram:' of key and the next ']'
ProgramOfKey(key) ==
    LET b == FindSub(key, s_ClientProgramOpen) + Len(s_ClientProgramOpen)
        rest == SubSeq(key, b, Len(key))
    IN  SubSeq(rest, 1, FindChar(rest, "]") - 1)

\* C24: program-name decomposition - for every key with a segment
\* '[ClientProgram:P]' the program of the node of find_nodes is P, the text
\* between '[ClientProgram:' and the closing ']'
ProgramDecomposed ==
    \A i \in 1..Len(nodes) :
        (/\ StrIn(s_ClientProgramOpen, nodes[i].name)
         /\ StrIn(<<"]">>, SliceFrom(nodes[i].name, FindSub(nodes[i].name, s_ClientProgramOpen))))
            => nodes[i].program = ProgramOfKey(nodes[i].name)

(***************************************************************************)
(* Content of a page layout                                                *)
(***************************************************************************)
\* the layout elements of an item, none when it has no such field
LayoutElements(item) ==
    IF HasKey(item, s_pageLayoutElements) /\ GetItem(item, s_pageLayoutElements).t = "list"
    THEN GetItem(item, s_pageLayoutElements).el
    ELSE <<>>

\* the element has HTML content that is not blank
HasVisibleHTML(section) ==
    /\ section.t = "dict"
    /\ HasKey(section, s_HTMLContent)
    /\ GetItem(section, s_HTMLContent).t = "str"
    /\ strip(GetItem(section, s_HTMLContent).s) # <<>>

\* the HTML content of the elements that have some, each followed by a newline
LayoutText(item) ==
    LET shown == SelectSeq(LayoutElements(item), HasVisibleHTML)
    IN  ConcatAll([k \in 1..Len(shown) |-> GetItem(shown[k], s_HTMLContent).s \o <<"\n">>])

\* C25: page-layout content - the content of the node of every item of class
\* ClientPageLayout is the concatenation, in order, of the HTMLContent of
\* each layout element whose HTMLContent is non-blank, each followed by a
\* newline; it is the empty string when no element has non-blank HTML
\* content, the item without layout elements included
PageLayoutContent ==
    \A i \in 1..Len(nodes) :
        nodes[i].class = "ClientPageLayout" =>
            nodes[i].content = ContentStr(LayoutText(nodes[i].raw))

(***************************************************************************)
(* Depth truncation                                                        *)
(***************************************************************************)
\* val, found depth levels below the root, with the values nested deeper
\* than max_depth levels replaced by the placeholder and the others kept
RECURSIVE CutBelow(_, _, _)
CutBelow(val, depth, max_depth) ==
    IF depth > max_depth THEN JStr(s_depth_limit)
    ELSE IF val.t = "dict"
    THEN LET ks == SortedKeys(val)
         IN  JDict([i \in 1..Len(ks) |->
                       <<ks[i], CutBelow(GetItem(val, ks[i]), depth + 1, max_depth)>>])
    ELSE IF val.t = "list"
    THEN JList([i \in 1..Len(val.el) |-> CutBelow(val.el[i], depth + 1, max_depth)])
    ELSE val

\* C26: depth truncation - in the result of _truncate_depth(raw, 0, max_depth),
\* as _node_json_pretty serializes it, every value nested deeper than
\* max_depth levels below the root is replaced by the placeholder string and
\* every value nested at most max_depth levels deep is copied unchanged
TruncatedBeyondLimit ==
    dpc = "pretty" =>
        /\ _truncate_depth(node_a.raw, 0, depth_limit) = CutBelow(node_a.raw, 0, depth_limit)
        /\ a_text = Dumps(CutBelow(node_a.raw, 0, depth_limit), 0)

(***************************************************************************)
(* Dedent rule                                                             *)
(***************************************************************************)
\* the minimum number of leading spaces among the non-blank lines of a block,
\* 0 when all its lines are blank
MinIndent(lines) ==
    LET non_blank == {i \in 1..Len(lines) : strip(lines[i]) # <<>>}
    IN  IF non_blank = {} THEN 0
        ELSE SetMin({_leading_spaces(lines[i]) : i \in non_blank})

\* C27: dedent rule - _dedent_block returns a block of the same length in
\* which each line is the input line with exactly m leading space characters
\* removed, m the minimum number of leading spaces among the non-blank lines
\* of the block, and no character other than a leading space is removed from
\* any line (a blank line with fewer than m leading spaces may keep them)
DedentRule ==
    ded_pc = "returned" =>
        /\ Len(ded_out) = Len(ded_block)
        /\ \A i \in 1..Len(ded_block) :
               LET removed == Len(ded_block[i]) - Len(ded_out[i])
               IN  /\ removed >= 0
                   /\ ded_out[i] = SliceFrom(ded_block[i], removed)
                   /\ removed <= _leading_spaces(ded_block[i])
                   /\ _leading_spaces(ded_block[i]) >= MinIndent(ded_block)
                          => removed = MinIndent(ded_block)

(***************************************************************************)
(* Rows of the two columns                                                 *)
(***************************************************************************)
\* the rows an opcode run takes in the columns: the larger of its two slices
RunRows(op) == Max(op.i2 - op.i1, op.j2 - op.j1)

\* the rows of the runs before run k
RECURSIVE RowsBefore(_, _)
RowsBefore(ops, k) == IF k <= 1 THEN 0 ELSE RowsBefore(ops, k - 1) + RunRows(ops[k - 1])

\* C28: replace run marking - in a 'replace' run of _two_column_diff every
\* line of the left slice is emitted in the left column marked removed and
\* every line of the right slice in the right column marked added; only the
\* rows that pad the shorter slice are blank filler cells
ReplaceMarked ==
    dpc \in {"runs", "done"} =>
        \A k \in 1..(run - 1) :
            opcodes[k].tag = "replace" =>
                LET base == RowsBefore(opcodes, k)
                    nl == opcodes[k].i2 - opcodes[k].i1
                    nr == opcodes[k].j2 - opcodes[k].j1
                IN  /\ Len(left_col_children) >= base + RunRows(opcodes[k])
                    /\ Len(right_col_children) >= base + RunRows(opcodes[k])
                    /\ \A idx \in 1..RunRows(opcodes[k]) :
                           /\ left_col_children[base + idx].style =
                                  (IF idx <= nl THEN "del_style" ELSE "empty_style")
                           /\ right_col_children[base + idx].style =
                                  (IF idx <= nr THEN "add_style" ELSE "empty_style")

\* the cell shows the line: the line without some of its leading blanks
ShowsLine(cell, line) ==
    /\ Len(cell.text) <= Len(line)
    /\ cell.text = SliceFrom(line, Len(line) - Len(cell.text))
    /\ lstrip(cell.text) = lstrip(line)

\* the rows base + 1 .. base + rows of a column show the lines of the slice
\* lines[lo:hi] in order, followed by padding cells
ColumnShows(column, base, rows, lines, lo, hi) ==
    /\ Len(column) >= base + rows
    /\ \A idx \in 1..rows :
           IF idx <= hi - lo
           THEN ShowsLine(column[base + idx], lines[lo + idx])
           ELSE column[base + idx] = Cell(<<>>, "empty_style")

\* C30: the diff columns lose no line - the cells of the left column of
\* _two_column_diff that are not padding correspond one-to-one and in order
\* to the lines of the left text, and likewise the right column to the lines
\* of the right text, so the number of rows is the sum over the opcode runs
\* of the larger of the two slice lengths
ColumnsKeepLines ==
    dpc \in {"runs", "done"} =>
        /\ Len(left_col_children) = RowsBefore(opcodes, run)
        /\ Len(right_col_children) = RowsBefore(opcodes, run)
        /\ \A k \in 1..(run - 1) :
               /\ opcodes[k].i1 = (IF k = 1 THEN 0 ELSE opcodes[k - 1].i2)
               /\ opcodes[k].j1 = (IF k = 1 THEN 0 ELSE opcodes[k - 1].j2)
               /\ ColumnShows(left_col_children, RowsBefore(opcodes, k), RunRows(opcodes[k]),
                              a_lines, opcodes[k].i1, opcodes[k].i2)
               /\ ColumnShows(right_col_children, RowsBefore(opcodes, k), RunRows(opcodes[k]),
                              b_lines, opcodes[k].j1, opcodes[k].j2)
        /\ dpc = "done" =>
               /\ a_lines # <<>> => opcodes[Len(opcodes)].i2 = Len(a_lines)
               /\ b_lines # <<>> => opcodes[Len(opcodes)].j2 = Len(b_lines)
               /\ (a_lines # <<>> \/ b_lines # <<>>) => opcodes # <<>>

\* a diff is done that had an equal run and a replace run with sides of
\* different lengths, one of them with an indented line
ColumnsKeepLinesWitness ==
    /\ dpc = "done"
    /\ \E k \in 1..Len(opcodes) : opcodes[k].tag = "equal"
    /\ \E k \in 1..Len(opcodes) :
           /\ opcodes[k].tag = "replace"
           /\ opcodes[k].i2 - opcodes[k].i1 # opcodes[k].j2 - opcodes[k].j1
    /\ \E i \in 1..Len(left_col_children) :
           \E j \in 1..Len(a_lines) :
               /\ left_col_children[i].text # <<>>
               /\ left_col_children[i].text # a_lines[j]
               /\ ShowsLine(left_col_children[i], a_lines[j])

(***************************************************************************)
(* Termination of the closure                                              *)
(***************************************************************************)
\* the list holds at most one appended node per distinct connection key of
\* the primary nodes
AppendedBound ==
    pc \in {"closing", "closed"} =>
        /\ Len(all_nodes) >= Len(nodes)
        /\ Len(all_nodes) - Len(nodes) <= Cardinality(ListSet(MetOrder(nodes)))
        /\ ni <= Len(all_nodes) + 1

\* C29: closure terminates - for every finite list of primary nodes the loop
\* of create_secondary_nodes, which iterates over the list it appends to,
\* comes to its end (the list is returned, or an exception leaves the loop),
\* and it appends at most one node per distinct connection key of the
\* primary nodes
ClosureTerminates ==
    /\ <>(pc \in {"closed", "raised"})
    /\ []AppendedBound

\* the loop has run over primary nodes that share a connection key and over
\* the nodes it appended, and the list is returned
ClosureTerminatesWitness ==
    /\ pc = "closed"
    /\ Len(all_nodes) > Len(nodes)
    /\ ni = Len(all_nodes) + 1
    /\ Len(MetOrder(nodes)) > Cardinality(ListSet(MetOrder(nodes)))

====
